---- MODULE Spec2Model ----
(***************************************************************************)
(* Folios: versioned, frontmatter-annotated markdown documents stored as    *)
(* {id}_v{version}.md files in one directory, and the tool operations over  *)
(* them (src/src/folios/server.py).                                         *)
(*                                                                          *)
(* Text is a sequence of one-character strings, so that the parsing         *)
(* functions are computed character by character as the code computes       *)
(* them.  A dict is a sequence of <<key, value>> pairs in insertion order.  *)
(***************************************************************************)
EXTENDS Integers, Sequences, FiniteSets, TLC

\* The external writer keeps at most MaxFiles entries in the directory.
MaxFiles == 2

\* The most entries the external writer creates or removes during one call.
MaxWrites == 2

\* The longest text, in lines, whose chapters are fetched.
MaxLines == 3

\* The longest text, in lines, on either side of a comparison.
MaxDiffLines == 3

\* The longest text, in lines, that is parsed.
MaxParseLines == 4

\* The most lines between the two delimiters of a frontmatter.
MaxFmLines == 3

----------------------------------------------------------------------------
(* str methods of Python, on sequences of characters *)

Min(S) == CHOOSE x \in S : \A y \in S : x <= y
Max(S) == CHOOSE x \in S : \A y \in S : y <= x

\* The whitespace str.strip() removes and \s matches (within the alphabet
\* of the documents modelled).
IsWS(c) == c \in {" ", "\t", "\n"}

DigitSeq == <<"0", "1", "2", "3", "4", "5", "6", "7", "8", "9">>
IsDigitChar(c) == \E i \in 1..10 : DigitSeq[i] = c
DigitVal(c) == (CHOOSE i \in 1..10 : DigitSeq[i] = c) - 1

UpperSeq == <<"A","B","C","D","E","F","G","H","I","J","K","L","M",
              "N","O","P","Q","R","S","T","U","V","W","X","Y","Z">>
LowerSeq == <<"a","b","c","d","e","f","g","h","i","j","k","l","m",
              "n","o","p","q","r","s","t","u","v","w","x","y","z">>
LowerChar(c) ==
    IF \E i \in 1..26 : UpperSeq[i] = c
    THEN LowerSeq[CHOOSE i \in 1..26 : UpperSeq[i] = c]
    ELSE c
\* str.lower()
Lower(s) == [i \in 1..Len(s) |-> LowerChar(s[i])]

RECURSIVE LStrip(_)
LStrip(s) == IF s # <<>> /\ IsWS(Head(s)) THEN LStrip(Tail(s)) ELSE s
RECURSIVE RStrip(_)
RStrip(s) ==
    IF s # <<>> /\ IsWS(s[Len(s)]) THEN RStrip(SubSeq(s, 1, Len(s) - 1)) ELSE s
\* str.strip()
Strip(s) == RStrip(LStrip(s))

StartsWithAt(s, p, i) ==
    /\ i >= 1
    /\ i + Len(p) - 1 <= Len(s)
    /\ SubSeq(s, i, i + Len(p) - 1) = p
\* str.startswith / str.endswith
StartsWith(s, p) == StartsWithAt(s, p, 1)
EndsWith(s, p) == StartsWithAt(s, p, Len(s) - Len(p) + 1)

\* str.find from position `from` (1-indexed); 0 when there is no occurrence.
Find(s, p, from) ==
    LET hits == {i \in from..(Len(s) - Len(p) + 1) : StartsWithAt(s, p, i)}
    IN  IF hits = {} THEN 0 ELSE Min(hits)
\* p in s
Contains(s, p) == Find(s, p, 1) # 0

\* str.splitlines(): no final empty line after a trailing line break.
RECURSIVE splitlines(_)
splitlines(s) ==
    IF s = <<>> THEN <<>>
    ELSE LET i == Find(s, <<"\n">>, 1)
         IN  IF i = 0 THEN <<s>>
             ELSE <<SubSeq(s, 1, i - 1)>> \o splitlines(SubSeq(s, i + 1, Len(s)))

\* str.isdigit()
isdigit(s) == s # <<>> /\ \A i \in 1..Len(s) : IsDigitChar(s[i])
\* int(s) of a string of digits: leading zeros carry no value.
RECURSIVE int(_)
int(s) == IF s = <<>> THEN 0 ELSE 10 * int(SubSeq(s, 1, Len(s) - 1)) + DigitVal(s[Len(s)])
\* str(n) of a natural number: the decimal digits without leading zeros.
RECURSIVE str(_)
str(n) == IF n < 10 THEN <<DigitSeq[n + 1]>> ELSE str(n \div 10) \o <<DigitSeq[(n % 10) + 1]>>

----------------------------------------------------------------------------
(* values, dicts, exceptions *)

\* A frontmatter value is a str or an int.
StrV(s) == [t |-> "str", s |-> s, n |-> 0]
IntV(n) == [t |-> "int", s |-> <<>>, n |-> n]
NA == StrV(<<"N", "A">>)

DictHas(d, k) == \E i \in 1..Len(d) : d[i][1] = k
\* dict.get(k, default)
DictGet(d, k, default) ==
    IF DictHas(d, k) THEN d[CHOOSE i \in 1..Len(d) : d[i][1] = k][2] ELSE default
\* d[k] = v: a key already present keeps its place.
DictSet(d, k, v) ==
    IF DictHas(d, k)
    THEN [i \in 1..Len(d) |-> IF d[i][1] = k THEN <<k, v>> ELSE d[i]]
    ELSE Append(d, <<k, v>>)
DictKeys(d) == {d[i][1] : i \in 1..Len(d)}

\* The builtin exception classes the handlers tell apart.
OSErrors == {"OSError", "FileNotFoundError", "PermissionError", "IsADirectoryError"}
ValueErrors == {"ValueError", "UnicodeDecodeError", "ValidationError"}

----------------------------------------------------------------------------
(* parsing functions *)

Delimiter == <<"-", "-", "-">>

\* Remove surrounding quotes if present: value[1:-1].
Unquote(value) ==
    IF \/ StartsWith(value, <<"\"">>) /\ EndsWith(value, <<"\"">>)
       \/ StartsWith(value, <<"'">>) /\ EndsWith(value, <<"'">>)
    THEN SubSeq(value, 2, Len(value) - 1)
    ELSE value

\* One turn of the loop over the frontmatter lines.
FrontmatterLine(frontmatter, rawline) ==
    LET pair(line, c) ==
            LET key == Strip(SubSeq(line, 1, c - 1))
                set(value) ==
                    DictSet(frontmatter, key,
                            IF isdigit(value) THEN IntV(int(value)) ELSE StrV(value))
            IN  set(Unquote(Strip(SubSeq(line, c + 1, Len(line)))))
        stripped(line) ==
            IF line = <<>> \/ StartsWith(line, <<"#">>) THEN frontmatter
            ELSE IF ~Contains(line, <<":">>) THEN frontmatter
            ELSE pair(line, Find(line, <<":">>, 1))
    IN  stripped(Strip(rawline))

RECURSIVE FrontmatterLines(_, _)
FrontmatterLines(frontmatter, lines) ==
    IF lines = <<>> THEN frontmatter
    ELSE FrontmatterLines(FrontmatterLine(frontmatter, Head(lines)), Tail(lines))

\* A parser that takes every text as a body without frontmatter.
parse_frontmatter_without_delimiters(content) ==
    [exc |-> "none", frontmatter |-> <<>>, body |-> Strip(content)]

\* parse_frontmatter(content): exc is "none" or the exception raised.
parse_frontmatter(content) ==
    LET parts(close) ==                             \* content.split("---", 2)
            IF close = 0
            THEN [exc |-> "ValueError", frontmatter |-> <<>>, body |-> <<>>]
            ELSE [exc |-> "none",
                  frontmatter |->
                      FrontmatterLines(<<>>,
                          splitlines(Strip(SubSeq(content, 4, close - 1)))),
                  body |-> Strip(SubSeq(content, close + 3, Len(content)))]
    IN  IF ~StartsWith(content, Delimiter)
        THEN [exc |-> "none", frontmatter |-> <<>>, body |-> Strip(content)]
        ELSE parts(Find(content, Delimiter, 4))

\* The match of ^<hashes>\s+(.+)$ (re.MULTILINE) starting at position i:
\* \s+ is greedy and may run over line breaks, (.+) is the rest of the line
\* it stops in.  gs..ge is group 1.
NoMatch == [ok |-> FALSE, start |-> 0, gs |-> 0, ge |-> 0]
HeadingMatchAt(s, i, hashes) ==
    LET group(g, nl) == [ok |-> TRUE, start |-> i, gs |-> g,
                         ge |-> IF nl = 0 THEN Len(s) ELSE nl - 1]
        from(g) == group(g, Find(s, <<"\n">>, g))
        spaces(p, ks) ==
            IF /\ i = 1 \/ (i > 1 /\ s[i - 1] = "\n")
               /\ StartsWithAt(s, hashes, i)
               /\ ks # {}
            THEN from(p + Max(ks))
            ELSE NoMatch
        after(p) == spaces(p, {k \in 1..(Len(s) - p) :
                                  /\ \A j \in p..(p + k - 1) : IsWS(s[j])
                                  /\ s[p + k] # "\n"})
    IN  after(i + Len(hashes))

\* pattern.search(s) from position `from`.
HeadingSearch(s, hashes, from) ==
    LET first(hits) ==
            IF hits = {} THEN NoMatch ELSE HeadingMatchAt(s, Min(hits), hashes)
    IN  first({i \in from..Len(s) : HeadingMatchAt(s, i, hashes).ok})

\* list(pattern.finditer(s)): the non-overlapping matches, left to right.
RECURSIVE HeadingFindAll(_, _, _)
HeadingFindAll(s, hashes, from) ==
    LET more(m) ==
            IF ~m.ok THEN <<>> ELSE <<m>> \o HeadingFindAll(s, hashes, m.ge + 1)
    IN  more(HeadingSearch(s, hashes, from))

Group1(s, m) == SubSeq(s, m.gs, m.ge)

TITLE_PATTERN == <<"#">>
HEADING_PATTERN == <<"#", "#">>

\* parse_title(content)
parse_title(content) ==
    LET title(match) ==
            IF ~match.ok THEN [exc |-> "ValueError", title |-> <<>>]
            ELSE [exc |-> "none", title |-> Strip(Group1(content, match))]
    IN  title(HeadingSearch(content, TITLE_PATTERN, 1))

\* parse_chapters(content): the chapter titles in order.
parse_chapters(content) ==
    LET titles(ms) == [i \in 1..Len(ms) |-> Strip(Group1(content, ms[i]))]
    IN  titles(HeadingFindAll(content, HEADING_PATTERN, 1))

\* extract_chapter_content(body, chapter_title); found = FALSE is None.
extract_chapter_content(body, chapter_title) ==
    LET title(h) == Strip(Group1(body, h))
        chapter(headings, target_idx) ==
            LET start_pos == headings[target_idx].start
                end_pos   == IF target_idx + 1 <= Len(headings)
                             THEN headings[target_idx + 1].start - 1
                             ELSE Len(body)
            IN  [found |-> TRUE, title |-> title(headings[target_idx]),
                 content |-> RStrip(SubSeq(body, start_pos, end_pos))]
        pick(headings, exact, nocase) ==
            IF exact # {} THEN chapter(headings, Min(exact))
            ELSE IF nocase # {} THEN chapter(headings, Min(nocase))
            ELSE [found |-> FALSE, title |-> <<>>, content |-> <<>>]
        among(headings) ==
            pick(headings,
                 {i \in 1..Len(headings) : title(headings[i]) = chapter_title},
                 {i \in 1..Len(headings) :
                     Lower(title(headings[i])) = Lower(chapter_title)})
    IN  among(HeadingFindAll(body, HEADING_PATTERN, 1))

Metadata == <<"M", "e", "t", "a", "d", "a", "t", "a">>

\* Boundaries that take the whole text for the "Metadata" section.
get_chapter_boundaries_without_chapters(content) ==
    <<<<Metadata, 1, Len(splitlines(content))>>>>

\* get_chapter_boundaries(content): <<name, start_line, end_line>> triples.
get_chapter_boundaries(content) ==
    LET h2_match(line) == HeadingMatchAt(line, 1, HEADING_PATTERN)
        name(line) == Strip(Group1(line, h2_match(line)))
        bounds(lines, h2) ==
            LET total_lines == Len(lines)
                next(i) == IF \E j \in h2 : j > i
                           THEN Min({j \in h2 : j > i}) - 1
                           ELSE total_lines
                RECURSIVE chapters(_)
                chapters(from) ==
                    IF ~\E j \in h2 : j >= from THEN <<>>
                    ELSE LET at(i) == <<<<name(lines[i]), i, next(i)>>>>
                                          \o chapters(i + 1)
                         IN  at(Min({j \in h2 : j >= from}))
            IN  IF total_lines = 0 THEN <<<<Metadata, 1, 1>>>>
                ELSE IF h2 = {} THEN <<<<Metadata, 1, total_lines>>>>
                ELSE (IF Min(h2) > 1 THEN <<<<Metadata, 1, Min(h2) - 1>>>> ELSE <<>>)
                     \o chapters(1)
        of(lines) == bounds(lines, {i \in 1..Len(lines) : h2_match(lines[i]).ok})
    IN  of(splitlines(content))

\* A map that knows no line.
get_line_to_chapter_map_of_no_line(boundaries) == <<>>

\* get_line_to_chapter_map(boundaries): a later triple overwrites an earlier.
get_line_to_chapter_map(boundaries) ==
    LET covers(i, n) == boundaries[i][2] <= n /\ n <= boundaries[i][3]
        dom == UNION {boundaries[i][2]..boundaries[i][3] : i \in 1..Len(boundaries)}
    IN  [n \in dom |->
            boundaries[Max({i \in 1..Len(boundaries) : covers(i, n)})][1]]

----------------------------------------------------------------------------
(* the documents directory *)

\* The file names the external writer uses.  N1v02 carries a leading zero:
\* FILENAME_PATTERN accepts it and reads it as version 2 of document 1.
N1v1  == <<"1","_","v","1",".","m","d">>
N1v2  == <<"1","_","v","2",".","m","d">>
N1v02 == <<"1","_","v","0","2",".","m","d">>
N2v1  == <<"2","_","v","1",".","m","d">>
DocNames == {N1v1, N1v2, N1v02, N2v1}

\* Names that FILENAME_PATTERN does not match: one with a character before
\* the id, one with the extension in capitals.
Nx1v1  == <<"x","1","_","v","1",".","m","d">>
N1v1MD == <<"1","_","v","1",".","M","D">>
OtherNames == {Nx1v1, N1v1MD}
Names == DocNames \cup OtherNames

\* The files the external writer stores, by key: what is on the disk.  The
\* file "crlf" ends its lines with carriage return and line feed.
DocKeys == {"draft", "approved", "unclosed", "notitle", "fmid", "ints", "crlf"}
Stored(k) ==
    IF k = "draft" THEN
        <<"-","-","-","\n","s","t","a","t","u","s",":"," ","D","r","a","f","t","\n","a","u","t","h","o","r",":"," ","\"","A","l","\"","\n","-","-","-","\n","#"," ","T","\n","#","#"," ","A","\n","x","\n">>
    ELSE
    IF k = "approved" THEN
        <<"-","-","-","\n","s","t","a","t","u","s",":"," ","A","p","p","r","o","v","e","d","\n","d","o","c","u","m","e","n","t","_","t","y","p","e",":"," ","G","u","i","d","e","\n","a","u","t","h","o","r",":"," ","B","o","\n","-","-","-","\n","#"," ","T","\n","#","#"," ","A","\n","y","\n">>
    ELSE
    IF k = "unclosed" THEN
        <<"-","-","-","\n","s","t","a","t","u","s",":"," ","D","r","a","f","t","\n","#"," ","T","\n">>
    ELSE
    IF k = "notitle" THEN
        <<"-","-","-","\n","s","t","a","t","u","s",":"," ","D","r","a","f","t","\n","-","-","-","\n","b","o","d","y","\n">>
    ELSE
    IF k = "fmid" THEN
        <<"-","-","-","\n","i","d",":"," ","9","\n","v","e","r","s","i","o","n",":"," ","7","\n","-","-","-","\n","#"," ","T","\n">>
    ELSE
    IF k = "ints" THEN
        <<"-","-","-","\n","s","t","a","t","u","s",":"," ","1","\n","a","u","t","h","o","r",":"," ","7","\n","d","a","t","e",":"," ","2","0","2","5","\n","-","-","-","\n","#"," ","T","\n">>
    ELSE
    IF k = "crlf" THEN
        <<"#"," ","T","\r","\n","#","#"," ","A","\r","\n","x","\r","\n">>
    ELSE <<>>

\* Text mode with the default newline=None: "\r\n" and "\r" are read as "\n".
IsKept(c) == c # ""
universal_newlines(s) ==
    SelectSeq([i \in 1..Len(s) |->
                  IF s[i] # "\r" THEN s[i]
                  ELSE IF i < Len(s) /\ s[i + 1] = "\n" THEN "" ELSE "\n"],
              IsKept)

\* path.read_text(encoding="utf-8") of a stored file that decodes.
Text(k) == universal_newlines(Stored(k))

\* A directory entry is absent, a directory, or a regular file: one holding
\* a text, one whose read fails with an OSError (permission denied, stale
\* handle, I/O error: "oserror"), one whose bytes are not UTF-8 ("badutf8"),
\* or one too large to read into memory ("huge").
FileKinds == DocKeys \cup {"oserror", "badutf8", "huge"}
Entries == {"absent", "dir"} \cup FileKinds

\* What the file system does during one call: nothing special, or an OSError
\* raised by docs_path.exists(), by the listing, by is_file() on the entry
\* `name`, or by path.exists() on a document path.
IO(kind, name) == [kind |-> kind, name |-> name]
NoIO == IO("ok", <<>>)
ScanIOs == {NoIO, IO("dir_exists_err", <<>>), IO("glob_err", <<>>),
            IO("is_file_err", N1v2)}
PathIOs == {NoIO, IO("path_exists_err", <<>>)}

None == <<>>
Some(x) == <<x>>

\* Exceptions and messages.  An f-string is kept as its template and values.
Msg(fmt, args) == [fmt |-> fmt, args |-> args]
NoMsg == Msg("", <<>>)
NoExc == [exc |-> "none", message |-> NoMsg]
Exc(class, message) == [exc |-> class, message |-> message]

----------------------------------------------------------------------------
(* storage functions *)

\* FILENAME_PATTERN.match(name): ^(\d+)_v(\d+)\.md$
FILENAME_PATTERN(name) ==
    LET run(from) == {k \in 1..(Len(name) - from + 1) :
                         \A j \in from..(from + k - 1) : IsDigitChar(name[j])}
        longest(ks) == IF ks = {} THEN 0 ELSE Max(ks)
        groups(a, b) ==
            IF /\ a > 0
               /\ StartsWithAt(name, <<"_", "v">>, a + 1)
               /\ b > 0
               /\ SubSeq(name, a + 3 + b, Len(name)) = <<".", "m", "d">>
            THEN [ok |-> TRUE, g1 |-> SubSeq(name, 1, a),
                  g2 |-> SubSeq(name, a + 3, a + 2 + b)]
            ELSE [ok |-> FALSE, g1 |-> <<>>, g2 |-> <<>>]
        after(a) == groups(a, longest(run(a + 3)))
    IN  after(longest(run(1)))

\* f"{doc_id}_v{version}.md"
DocFileName(doc_id, version) ==
    str(doc_id) \o <<"_", "v">> \o str(version) \o <<".", "m", "d">>

\* A test that takes a directory for a file as well.
is_file_or_directory(d, name) == name \in DOMAIN d /\ d[name] # "absent"

\* path.is_file(), path.exists(), path.read_text() on the directory d.
is_file(d, name) == name \in DOMAIN d /\ d[name] \in FileKinds
exists(d, name) == name \in DOMAIN d /\ d[name] # "absent"
read_text(d, name) ==
    IF ~exists(d, name) THEN [exc |-> "FileNotFoundError", key |-> ""]
    ELSE IF d[name] = "dir" THEN [exc |-> "IsADirectoryError", key |-> ""]
    ELSE IF d[name] = "oserror" THEN [exc |-> "PermissionError", key |-> ""]
    ELSE IF d[name] = "badutf8" THEN [exc |-> "UnicodeDecodeError", key |-> ""]
    ELSE IF d[name] = "huge" THEN [exc |-> "MemoryError", key |-> ""]
    ELSE [exc |-> "none", key |-> d[name]]

\* FILENAME_PATTERN.match(path.name) of every name of the directory,
\* computed once.
FilenameMatches == [n \in Names |-> FILENAME_PATTERN(n)]

\* get_all_document_files(docs_path): <<doc_id, version, name>> triples, in
\* the order `order` in which the listing yields the entries.
RECURSIVE get_all_document_files_loop(_, _, _)
get_all_document_files_loop(d, io, order) ==
    LET entry(path, match) ==
            IF ~exists(d, path) \/ ~EndsWith(path, <<".", "m", "d">>) THEN <<>>
            ELSE IF io.kind = "is_file_err" /\ io.name = path THEN <<>>
            ELSE IF ~is_file(d, path) THEN <<>>
            ELSE IF match.ok
                 THEN <<<<int(match.g1), int(match.g2), path>>>>
                 ELSE <<>>
    IN  IF order = <<>> THEN <<>>
        ELSE entry(Head(order), FilenameMatches[Head(order)])
                 \o get_all_document_files_loop(d, io, Tail(order))

\* An enumeration that gives up on the first failure of any kind.
get_all_document_files_or_nothing(d, io, order) ==
    IF io.kind \in {"dir_exists_err", "glob_err", "is_file_err"} THEN <<>>
    ELSE get_all_document_files_loop(d, io, order)

get_all_document_files(d, io, order) ==
    IF io.kind = "dir_exists_err" THEN <<>>
    ELSE IF io.kind = "glob_err" THEN <<>>
    ELSE get_all_document_files_loop(d, io, order)

\* get_latest_version(docs_path, doc_id): None when the id has no file.
get_latest_version(d, io, order, doc_id) ==
    LET latest(versions) == IF versions # {} THEN Some(Max(versions)) ELSE None
        of(files) ==
            latest({files[i][2] : i \in {j \in 1..Len(files) : files[j][1] = doc_id}})
    IN  of(get_all_document_files(d, io, order))

\* find_document_path, first half: the version to look for.
find_document_version(d, io, order, doc_id, version) ==
    LET resolved(latest) ==
            IF latest = None
            THEN [exc |-> Exc("FileNotFoundError",
                              Msg("Document {doc_id} not found", <<doc_id>>)),
                  version |-> None]
            ELSE [exc |-> NoExc, version |-> latest]
    IN  IF version = None
        THEN resolved(get_latest_version(d, io, order, doc_id))
        ELSE [exc |-> NoExc, version |-> version]

\* A find_document_path that would not tell a missing version from a
\* missing document.
find_document_file_unnamed(d, io, doc_id, version) ==
    LET at(path) ==
        IF io.kind = "path_exists_err"
        THEN [exc |-> Exc("OSError", Msg("format_os_error", <<>>)),
              path |-> <<>>, version |-> 0]
        ELSE IF ~exists(d, path)
        THEN [exc |-> Exc("FileNotFoundError",
                          Msg("Document {doc_id} not found", <<doc_id>>)),
              path |-> <<>>, version |-> 0]
        ELSE [exc |-> NoExc, path |-> path, version |-> version]
    IN  at(DocFileName(doc_id, version))

\* find_document_path, second half: the path must exist.
find_document_file(d, io, doc_id, version) ==
    LET at(path) ==
        IF io.kind = "path_exists_err"
        THEN [exc |-> Exc("OSError", Msg("format_os_error", <<>>)),
              path |-> <<>>, version |-> 0]
        ELSE IF ~exists(d, path)
        THEN [exc |-> Exc("FileNotFoundError",
                          Msg("Document {doc_id} version {version} not found",
                              <<doc_id, version>>)),
              path |-> <<>>, version |-> 0]
        ELSE [exc |-> NoExc, path |-> path, version |-> version]
    IN  at(DocFileName(doc_id, version))

\* find_document_path(docs_path, doc_id, version)
find_document_path(d, io, order, doc_id, version) ==
    LET file(v) ==
            IF v.exc # NoExc THEN [exc |-> v.exc, path |-> <<>>, version |-> 0]
            ELSE find_document_file(d, io, doc_id, v.version[1])
    IN  file(find_document_version(d, io, order, doc_id, version))

----------------------------------------------------------------------------
(* callers *)

\* The arguments the callers use.
Ids == {1, 2}
Versions == {1, 2}
VersionArgs == {None} \cup {Some(v) : v \in Versions}
Titles == {<<"a">>}
StatusArgs == {None, Some(<<"A","p","p","r","o","v","e","d">>)}
TypeArgs == {None, Some(<<"G","u","i","d","e">>)}
AuthorArgs == {None, Some(<<"b">>)}

----------------------------------------------------------------------------
(* parse_document *)

KeyId       == <<"i", "d">>
KeyVersion  == <<"v", "e", "r", "s", "i", "o", "n">>
KeyTitle    == <<"t", "i", "t", "l", "e">>
KeyAuthor   == <<"a", "u", "t", "h", "o", "r">>
KeyDate     == <<"d", "a", "t", "e">>
KeyChapters == <<"c", "h", "a", "p", "t", "e", "r", "s">>
KeyStatus   == <<"s", "t", "a", "t", "u", "s">>
KeyDocumentType ==
    <<"d", "o", "c", "u", "m", "e", "n", "t", "_", "t", "y", "p", "e">>

\* The list of {"title": ...} dicts of the metadata record.
ListV(titles) == [t |-> "list", s |-> titles, n |-> 0]

\* The exception read_text raised, with str(e).
ReadExc(class, path) ==
    Exc(class, IF class = "FileNotFoundError"
               THEN Msg("[Errno 2] No such file or directory: {path}", <<path>>)
               ELSE Msg("str(e)", <<>>))

\* A loop that would leave the core fields alone.
RECURSIVE AddFrontmatterFields_core_kept(_, _)
AddFrontmatterFields_core_kept(metadata, items) ==
    IF items = <<>> THEN metadata
    ELSE AddFrontmatterFields_core_kept(
             IF DictHas(metadata, Head(items)[1]) THEN metadata
             ELSE DictSet(metadata, Head(items)[1], Head(items)[2]),
             Tail(items))

\* for key, value in frontmatter.items(): if key not in ("author", "date")
RECURSIVE AddFrontmatterFields(_, _)
AddFrontmatterFields(metadata, items) ==
    IF items = <<>> THEN metadata
    ELSE LET key   == Head(items)[1]
             value == Head(items)[2]
         IN  AddFrontmatterFields(
                 IF key \notin {KeyAuthor, KeyDate}
                 THEN DictSet(metadata, key, value) ELSE metadata,
                 Tail(items))

\* parse_document from the text read on: the metadata dict and the body.
parse_document_content(content, doc_id, doc_version) ==
    LET core(frontmatter, title, chapters) ==
            << <<KeyId, IntV(doc_id)>>,
               <<KeyVersion, IntV(doc_version)>>,
               <<KeyTitle, StrV(title)>>,
               <<KeyAuthor, DictGet(frontmatter, KeyAuthor, NA)>>,
               <<KeyDate, DictGet(frontmatter, KeyDate, NA)>>,
               <<KeyChapters, ListV(chapters)>> >>
        titled(fm, title) ==
            IF title.exc # "none"
            THEN [exc |-> Exc("ValueError",
                      Msg("Document missing title (H1 heading)", <<>>)),
                  metadata |-> <<>>, body |-> <<>>]
            ELSE [exc |-> NoExc,
                  metadata |->
                      AddFrontmatterFields(
                          core(fm.frontmatter, title.title, parse_chapters(fm.body)),
                          fm.frontmatter),
                  body |-> fm.body]
        parsed(fm) ==
            IF fm.exc # "none"
            THEN [exc |-> Exc("ValueError",
                      Msg("Invalid frontmatter format: missing closing delimiter", <<>>)),
                  metadata |-> <<>>, body |-> <<>>]
            ELSE titled(fm, parse_title(fm.body))
    IN  parsed(parse_frontmatter(content))

\* The ids and versions FILENAME_PATTERN reads from the names in use.
NameIds == {int(FILENAME_PATTERN(n).g1) : n \in DocNames}
NameVersions == {int(FILENAME_PATTERN(n).g2) : n \in DocNames}

\* parse_document_content of every stored text, computed once.
ParsedDocuments ==
    [k \in DocKeys, i \in NameIds, v \in NameVersions |->
        parse_document_content(Text(k), i, v)]

\* parse_document(path, doc_id, doc_version)
parse_document(d, io, path, doc_id, doc_version) ==
    LET fail(e) == [exc |-> e, metadata |-> <<>>, body |-> <<>>]
        parsed(read) ==
            IF read.exc # "none" THEN fail(ReadExc(read.exc, path))
            ELSE ParsedDocuments[read.key, doc_id, doc_version]
    IN  IF io.kind = "path_exists_err"
        THEN fail(Exc("OSError", Msg("str(e)", <<>>)))
        ELSE IF ~exists(d, path)
        THEN fail(Exc("FileNotFoundError", Msg("Document not found: {path}", <<path>>)))
        ELSE parsed(read_text(d, path))

----------------------------------------------------------------------------
(* tools on one document *)

\* What a tool call gives its caller: a success payload, a structured
\* error {code, message}, or an exception that escapes the handler.
OkR(value) ==
    [kind |-> "ok", code |-> "", message |-> NoMsg, exc |-> "none", value |-> value]
ErrR(code, message) ==
    [kind |-> "error", code |-> code, message |-> message, exc |-> "none",
     value |-> <<>>]
RaiseR(e) ==
    [kind |-> "raise", code |-> "", message |-> e.message, exc |-> e.exc,
     value |-> <<>>]

MsgEncoding == Msg("File encoding error: {e.reason}", <<>>)
MsgTooLarge == Msg("File too large to read into memory", <<>>)
MsgOSError  == Msg("format_os_error(e)", <<>>)

\* The except clauses of get_document_content, in order.
get_document_content_except(e) ==
    IF e.exc = "FileNotFoundError" THEN ErrR("NOT_FOUND", e.message)
    ELSE IF e.exc = "UnicodeDecodeError" THEN ErrR("READ_ERROR", MsgEncoding)
    ELSE IF e.exc = "MemoryError" THEN ErrR("READ_ERROR", MsgTooLarge)
    ELSE IF e.exc \in OSErrors THEN ErrR("READ_ERROR", MsgOSError)
    ELSE RaiseR(e)

\* get_document_content once the path is found: path.read_text().
get_document_content_read(d, path) ==
    LET content(read) ==
            IF read.exc # "none"
            THEN get_document_content_except(ReadExc(read.exc, path))
            ELSE OkR(Text(read.key))
    IN  content(read_text(d, path))

get_document_content(d, io, order, document_id, version) ==
    LET at(found) ==
            IF found.exc # NoExc THEN get_document_content_except(found.exc)
            ELSE get_document_content_read(d, found.path)
    IN  at(find_document_path(d, io, order, document_id, version))

\* The except clauses of get_document_metadata, in order.
get_document_metadata_except(e) ==
    IF e.exc = "FileNotFoundError" THEN ErrR("NOT_FOUND", e.message)
    ELSE IF e.exc \in ValueErrors \/ e.exc = "KeyError"
    THEN ErrR("INVALID_FORMAT", e.message)
    ELSE IF e.exc \in OSErrors THEN ErrR("READ_ERROR", MsgOSError)
    ELSE RaiseR(e)

\* get_document_metadata once the path is found: parse_document(...).
get_document_metadata_read(d, io, path, document_id, resolved_version) ==
    LET metadata(parsed) ==
            IF parsed.exc # NoExc THEN get_document_metadata_except(parsed.exc)
            ELSE OkR(parsed.metadata)
    IN  metadata(parse_document(d, io, path, document_id, resolved_version))

get_document_metadata(d, io, order, document_id, version) ==
    LET at(found) ==
            IF found.exc # NoExc THEN get_document_metadata_except(found.exc)
            ELSE get_document_metadata_read(d, io, found.path, document_id,
                                            found.version)
    IN  at(find_document_path(d, io, order, document_id, version))

\* The except clauses of get_chapter_content, in order: the clause for
\* ValueError comes before the one for its subclass UnicodeDecodeError.
get_chapter_content_except(e) ==
    IF e.exc = "FileNotFoundError" THEN ErrR("NOT_FOUND", e.message)
    ELSE IF e.exc \in ValueErrors THEN ErrR("INVALID_FORMAT", e.message)
    ELSE IF e.exc = "UnicodeDecodeError" THEN ErrR("READ_ERROR", MsgEncoding)
    ELSE IF e.exc = "MemoryError" THEN ErrR("READ_ERROR", MsgTooLarge)
    ELSE IF e.exc \in OSErrors THEN ErrR("READ_ERROR", MsgOSError)
    ELSE RaiseR(e)

\* get_chapter_content from the text read on.
get_chapter_content_of(content, document_id, chapter_title) ==
    LET chapter(result) ==
            IF ~result.found
            THEN ErrR("CHAPTER_NOT_FOUND",
                      Msg("Chapter '{chapter_title}' not found in document {document_id}",
                          <<chapter_title, document_id>>))
            ELSE OkR([content |-> result.content, chapter_title |-> result.title])
        of(fm) ==
            IF fm.exc # "none"
            THEN get_chapter_content_except(Exc("ValueError",
                     Msg("Invalid frontmatter format: missing closing delimiter", <<>>)))
            ELSE chapter(extract_chapter_content(fm.body, chapter_title))
    IN  of(parse_frontmatter(content))

\* get_chapter_content_of of every stored text, computed once.
ChapterContents ==
    [k \in DocKeys, i \in Ids, t \in Titles |-> get_chapter_content_of(Text(k), i, t)]

\* get_chapter_content once the path is found.
get_chapter_content_read(d, path, document_id, chapter_title) ==
    LET chapter(read) ==
            IF read.exc # "none"
            THEN get_chapter_content_except(ReadExc(read.exc, path))
            ELSE ChapterContents[read.key, document_id, chapter_title]
    IN  chapter(read_text(d, path))

get_chapter_content(d, io, order, document_id, chapter_title, version) ==
    LET at(found) ==
            IF found.exc # NoExc THEN get_chapter_content_except(found.exc)
            ELSE get_chapter_content_read(d, found.path, document_id, chapter_title)
    IN  at(find_document_path(d, io, order, document_id, version))

----------------------------------------------------------------------------
(* diff_document_versions *)

\* A list of names that keeps the repeated ones.
Unique_keeping_repeats(seen, names) == names

\* The names of a list, each once, in the order of first appearance.
RECURSIVE Unique(_, _)
Unique(seen, names) ==
    IF names = <<>> THEN <<>>
    ELSE IF Head(names) \in seen THEN Unique(seen, Tail(names))
    ELSE <<Head(names)>> \o Unique(seen \cup {Head(names)}, Tail(names))

\* A selection that takes every line, whatever its chapter.
ChapterLines_of_all_chapters(lines, line_map, chapter_name, n) == lines

\* The lines whose number maps to chapter_name, from line n on.
RECURSIVE ChapterLines(_, _, _, _)
ChapterLines(lines, line_map, chapter_name, n) ==
    IF n > Len(lines) THEN <<>>
    ELSE (IF n \in DOMAIN line_map /\ line_map[n] = chapter_name
          THEN <<lines[n]>> ELSE <<>>)
         \o ChapterLines(lines, line_map, chapter_name, n + 1)

\* A comparison that writes the two file names even when nothing differs.
unified_diff_with_names(a, b, fromfile, tofile) ==
    <<<<"-", "-", "-", " ">> \o fromfile, <<"+", "+", "+", " ">> \o tofile>>

\* list(difflib.unified_diff(a, b, fromfile, tofile, lineterm="")): nothing
\* when a = b; otherwise the two file names, the hunk header and the lines
\* marked " ", "-" or "+", with up to three lines of context on either
\* side.  SequenceMatcher takes the longest common block (the earliest in
\* a, then the earliest in b) and goes on to its left and to its right.
\* A hunk is split at a run of more than six equal lines: the texts
\* compared here have no such run.
unified_diff(a, b, fromfile, tofile) ==
    LET tagged(tag, lines) == [i \in 1..Len(lines) |-> <<tag, lines[i]>>]
        first(blocks, top) ==
            IF blocks = {} THEN <<0, 0, 0>>
            ELSE CHOOSE m \in blocks :
                    /\ m[3] = top
                    /\ \A o \in blocks :
                           o[3] = top => (m[1] < o[1] \/ (m[1] = o[1] /\ m[2] <= o[2]))
        largest(blocks) == first(blocks, Max({m[3] : m \in blocks} \cup {0}))
        find_longest_match(x, y) ==
            largest({m \in (1..Len(x)) \X (1..Len(y)) \X (1..Len(x)) :
                        /\ m[1] + m[3] - 1 <= Len(x)
                        /\ m[2] + m[3] - 1 <= Len(y)
                        /\ SubSeq(x, m[1], m[1] + m[3] - 1)
                               = SubSeq(y, m[2], m[2] + m[3] - 1)})
        RECURSIVE opcodes(_, _)
        around(x, y, m) ==
            IF m[3] = 0 THEN tagged("-", x) \o tagged("+", y)
            ELSE opcodes(SubSeq(x, 1, m[1] - 1), SubSeq(y, 1, m[2] - 1))
                 \o tagged(" ", SubSeq(x, m[1], m[1] + m[3] - 1))
                 \o opcodes(SubSeq(x, m[1] + m[3], Len(x)),
                            SubSeq(y, m[2] + m[3], Len(y)))
        opcodes(x, y) ==
            IF x = <<>> THEN tagged("+", y)
            ELSE IF y = <<>> THEN tagged("-", x)
            ELSE around(x, y, find_longest_match(x, y))
        range(start, stop) ==
            IF stop - start = 1 THEN str(start + 1)
            ELSE str(IF stop = start THEN start ELSE start + 1)
                 \o <<",">> \o str(stop - start)
        lines(body, lead, trail) ==
            <<<<"-", "-", "-", " ">> \o fromfile,
              <<"+", "+", "+", " ">> \o tofile,
              <<"@", "@", " ", "-">> \o range(lead, Len(a) - trail)
                  \o <<" ", "+">> \o range(lead, Len(b) - trail)
                  \o <<" ", "@", "@">>>>
            \o [i \in 1..(Len(body) - lead - trail) |->
                    <<body[i + lead][1]>> \o body[i + lead][2]]
        over(n) == IF n > 3 THEN n - 3 ELSE 0
        hunk(body) ==
            lines(body,
                  over(Min({i \in 1..Len(body) : body[i][1] # " "}) - 1),
                  over(Len(body) - Max({i \in 1..Len(body) : body[i][1] # " "})))
    IN  IF a = b THEN <<>> ELSE hunk(opcodes(a, b))

\* The changes list of diff_document_versions, from the two texts read.
diff_changes(old_content, new_content, document_id, from_version, to_version) ==
    LET RECURSIVE join(_)
        join(diff_lines) ==                      \* "\n".join(diff_lines)
            IF Len(diff_lines) = 1 THEN Head(diff_lines)
            ELSE Head(diff_lines) \o <<"\n">> \o join(Tail(diff_lines))
        change(chapter_name, diff_lines) ==
            IF diff_lines # <<>>
            THEN <<[chapter |-> chapter_name, diff |-> join(diff_lines)]>>
            ELSE <<>>
        RECURSIVE changes(_, _, _, _, _)
        changes(names, old_lines, old_line_map, new_lines, new_line_map) ==
            IF names = <<>> THEN <<>>
            ELSE change(Head(names),
                        unified_diff(
                            ChapterLines(old_lines, old_line_map, Head(names), 1),
                            ChapterLines(new_lines, new_line_map, Head(names), 1),
                            DocFileName(document_id, from_version),
                            DocFileName(document_id, to_version)))
                 \o changes(Tail(names), old_lines, old_line_map,
                            new_lines, new_line_map)
        all_chapters(both) == Unique({}, [i \in 1..Len(both) |-> both[i][1]])
        of(old_boundaries, new_boundaries) ==
            changes(all_chapters(old_boundaries \o new_boundaries),
                    splitlines(old_content), get_line_to_chapter_map(old_boundaries),
                    splitlines(new_content), get_line_to_chapter_map(new_boundaries))
    IN  of(get_chapter_boundaries(old_content), get_chapter_boundaries(new_content))

\* The except clauses of diff_document_versions, in order.
diff_document_versions_except(e) ==
    IF e.exc = "FileNotFoundError" THEN ErrR("NOT_FOUND", e.message)
    ELSE IF e.exc \in OSErrors THEN ErrR("READ_ERROR", MsgOSError)
    ELSE RaiseR(e)

\* diff_changes of every pair of stored texts, computed once.
DiffChanges ==
    [o \in DocKeys, n \in DocKeys, i \in Ids, from \in Versions, to \in Versions |->
        diff_changes(Text(o), Text(n), i, from, to)]

diff_document_versions(d, io, order, document_id, from_version, to_version) ==
    LET changes(old_path, new_path, old_read, new_read) ==
            IF old_read.exc # "none"
            THEN diff_document_versions_except(ReadExc(old_read.exc, old_path))
            ELSE IF new_read.exc # "none"
            THEN diff_document_versions_except(ReadExc(new_read.exc, new_path))
            ELSE OkR(DiffChanges[old_read.key, new_read.key,
                                 document_id, from_version, to_version])
        at(old_found, new_found) ==
            IF old_found.exc # NoExc THEN diff_document_versions_except(old_found.exc)
            ELSE IF new_found.exc # NoExc
            THEN diff_document_versions_except(new_found.exc)
            ELSE changes(old_found.path, new_found.path,
                         read_text(d, old_found.path), read_text(d, new_found.path))
    IN  at(find_document_path(d, io, order, document_id, Some(from_version)),
           find_document_path(d, io, order, document_id, Some(to_version)))

----------------------------------------------------------------------------
(* list_documents *)

\* `if status and ...`: None and the empty string switch a filter off.
Truthy(filter) == filter # None /\ filter[1] # <<>>

\* A filter that would also exclude the documents whose field is "NA".
filter_excludes_absent(filter, value) ==
    Truthy(filter) /\ value # StrV(filter[1])

\* `if status and doc_status != "NA" and doc_status != status: continue`,
\* and the same for doc_type: a field that is "NA" passes every filter.
filter_excludes(filter, value) ==
    Truthy(filter) /\ value # NA /\ value # StrV(filter[1])

NoSummary == [id |-> 0, title |-> <<>>, latest_version |-> 0,
              status |-> <<>>, document_type |-> <<>>]

\* parse_frontmatter and parse_title of every stored text, computed once.
Frontmatters == [k \in DocKeys |-> parse_frontmatter(Text(k))]
BodyTitles == [k \in DocKeys |-> parse_title(Frontmatters[k].body)]

\* One turn of the loop of scan_documents over the document ids: the
\* document is kept with its summary, skipped, or an exception escapes.
scan_documents_step(d, io, doc_id, latest_version, latest_path, status, doc_type, author) ==
    LET skip     == [exc |-> NoExc, keep |-> FALSE, summary |-> NoSummary]
        raise(c) == [exc |-> Exc(c, Msg("str(e)", <<>>)), keep |-> FALSE,
                     summary |-> NoSummary]
        filtered(doc_title, doc_status, doc_type_val, doc_author) ==
            IF filter_excludes(status, doc_status) THEN skip
            ELSE IF filter_excludes(doc_type, doc_type_val) THEN skip
            ELSE IF Truthy(author) /\ doc_author # NA /\ doc_author.t # "str"
            THEN raise("AttributeError")         \* doc_author.lower() of an int
            ELSE IF Truthy(author) /\ doc_author # NA
                    /\ ~Contains(Lower(doc_author.s), Lower(author[1]))
            THEN skip
            ELSE IF doc_status.t # "str" \/ doc_type_val.t # "str"
            THEN raise("ValidationError")        \* DocumentSummary(status: str, ...)
            ELSE [exc |-> NoExc, keep |-> TRUE,
                  summary |-> [id |-> doc_id, title |-> doc_title,
                               latest_version |-> latest_version,
                               status |-> doc_status.s,
                               document_type |-> doc_type_val.s]]
        parsed(fm, doc_title) ==
            IF fm.exc # "none" \/ doc_title.exc # "none" THEN skip
            ELSE filtered(doc_title.title,
                          DictGet(fm.frontmatter, KeyStatus, NA),
                          DictGet(fm.frontmatter, KeyDocumentType, NA),
                          DictGet(fm.frontmatter, KeyAuthor, NA))
        of(read) ==
            IF read.exc \in ValueErrors \cup OSErrors THEN skip
            ELSE IF read.exc # "none" THEN raise(read.exc)
            ELSE parsed(Frontmatters[read.key], BodyTitles[read.key])
    IN  of(read_text(d, latest_path))

\* The first entry of doc_id in the listing, whatever its version.
LatestEntry_first_listed(files, doc_id) ==
    files[Min({i \in 1..Len(files) : files[i][1] = doc_id})]

\* max(versions, key=lambda x: x[0]): the first entry of doc_id in the
\* listing that carries its highest version.
LatestEntry(files, doc_id) ==
    LET first(mine, top) == files[Min({i \in mine : files[i][2] = top})]
        of(mine) == first(mine, Max({files[i][2] : i \in mine}))
    IN  of({i \in 1..Len(files) : files[i][1] = doc_id})

RECURSIVE scan_documents_loop(_, _, _, _, _, _, _)
scan_documents_loop(d, io, files, ids, status, doc_type, author) ==
    LET then(one, rest) ==
            IF one.exc # NoExc THEN [exc |-> one.exc, summaries |-> <<>>]
            ELSE IF rest.exc # NoExc THEN rest
            ELSE [exc |-> NoExc,
                  summaries |-> (IF one.keep THEN <<one.summary>> ELSE <<>>)
                                    \o rest.summaries]
        step(latest) ==
            scan_documents_step(d, io, Head(ids), latest[2], latest[3],
                                status, doc_type, author)
    IN  IF ids = <<>> THEN [exc |-> NoExc, summaries |-> <<>>]
        ELSE then(step(LatestEntry(files, Head(ids))),
                  scan_documents_loop(d, io, files, Tail(ids),
                                      status, doc_type, author))

\* scan_documents(docs_path, status, doc_type, author)
scan_documents(d, io, order, status, doc_type, author) ==
    LET of(files) ==
            scan_documents_loop(d, io, files,
                                Unique({}, [i \in 1..Len(files) |-> files[i][1]]),
                                status, doc_type, author)
    IN  of(get_all_document_files(d, io, order))

\* list_documents has no except clause of its own.
list_documents(d, io, order, status, document_type, author) ==
    LET of(results) ==
            IF results.exc # NoExc THEN RaiseR(results.exc)
            ELSE OkR(results.summaries)
    IN  of(scan_documents(d, io, order, status, document_type, author))

----------------------------------------------------------------------------
(* list_document_versions *)

NoVersionInfo == [version |-> 0, date |-> <<>>, status |-> <<>>, author |-> <<>>]

\* One turn of the loop of list_document_versions over the files of the id.
list_document_versions_step(d, io, doc_id, doc_version, path) ==
    LET skip == [exc |-> NoExc, keep |-> FALSE, info |-> NoVersionInfo]
        info(date, status, author) ==
            IF date.t # "str" \/ status.t # "str" \/ author.t # "str"
            THEN skip                            \* ValidationError is a ValueError
            ELSE [exc |-> NoExc, keep |-> TRUE,
                  info |-> [version |-> doc_version, date |-> date.s,
                            status |-> status.s, author |-> author.s]]
        of(parsed) ==
            IF parsed.exc.exc \in ValueErrors \cup OSErrors \cup {"KeyError"} THEN skip
            ELSE IF parsed.exc # NoExc
            THEN [exc |-> parsed.exc, keep |-> FALSE, info |-> NoVersionInfo]
            ELSE info(DictGet(parsed.metadata, KeyDate, NA),
                      DictGet(parsed.metadata, KeyStatus, NA),
                      DictGet(parsed.metadata, KeyAuthor, NA))
    IN  of(parse_document(d, io, path, doc_id, doc_version))

RECURSIVE list_document_versions_loop(_, _, _, _)
list_document_versions_loop(d, io, files, document_id) ==
    LET then(one, rest) ==
            IF one.exc # NoExc THEN [exc |-> one.exc, versions |-> <<>>]
            ELSE IF rest.exc # NoExc THEN rest
            ELSE [exc |-> NoExc,
                  versions |-> (IF one.keep THEN <<one.info>> ELSE <<>>)
                                   \o rest.versions]
        turn(f, rest) ==
            IF f[1] # document_id THEN rest
            ELSE then(list_document_versions_step(d, io, f[1], f[2], f[3]), rest)
    IN  IF files = <<>> THEN [exc |-> NoExc, versions |-> <<>>]
        ELSE turn(Head(files),
                  list_document_versions_loop(d, io, Tail(files), document_id))

\* sorted(versions, key=lambda v: v.version): stable.
RECURSIVE SortedByVersion(_)
SortedByVersion(versions) ==
    LET without(at) ==
            <<versions[at]>>
            \o SortedByVersion(SubSeq(versions, 1, at - 1)
                               \o SubSeq(versions, at + 1, Len(versions)))
        lowest(low) ==
            without(Min({i \in 1..Len(versions) : versions[i].version = low}))
    IN  IF versions = <<>> THEN <<>>
        ELSE lowest(Min({versions[i].version : i \in 1..Len(versions)}))

\* list_document_versions after its loop: `if not versions`, then sorted.
list_document_versions_end(versions, document_id) ==
    IF versions = <<>>
    THEN ErrR("NOT_FOUND", Msg("Document {document_id} not found", <<document_id>>))
    ELSE OkR(SortedByVersion(versions))

list_document_versions(d, io, order, document_id) ==
    LET of(got) ==
            IF got.exc # NoExc THEN RaiseR(got.exc)
            ELSE list_document_versions_end(got.versions, document_id)
    IN  of(list_document_versions_loop(
               d, io, get_all_document_files(d, io, order), document_id))

----------------------------------------------------------------------------
(* the server and the external writer *)

VARIABLES
    dir,      \* the documents directory: file name -> entry
    call,     \* the tool call made last, with what the file system did in it
    result    \* what that call gave its caller

vars == <<dir, call, result>>

\* The orders in which a listing yields the entries present in d: by
\* name, ascending or descending.
Present(d) == {n \in DOMAIN d : d[n] # "absent"}
NamesByName == <<N1v02, N1v1MD, N1v1, N1v2, N2v1, Nx1v1>>
Ascending(d) == SelectSeq(NamesByName, LAMBDA n : exists(d, n))
Reverse(q) == [i \in 1..Len(q) |-> q[Len(q) + 1 - i]]

Call(op, id, a, b, title, filters, io, order) ==
    [op |-> op, id |-> id, version |-> a, to_version |-> b, title |-> title,
     filters |-> filters, io |-> io, order |-> order]
NoFilters == <<None, None, None>>
NoCall == Call("none", 0, None, None, <<>>, NoFilters, NoIO, <<>>)
NoResult == OkR(<<>>)

Init ==
    /\ dir = [n \in Names |-> "absent"]
    /\ call = NoCall
    /\ result = NoResult

\* The external writer creates a file or a directory under a free name.
AddFile(n, e) ==
    /\ call = NoCall
    /\ dir[n] = "absent"
    /\ Cardinality(Present(dir)) < MaxFiles
    /\ dir' = [dir EXCEPT ![n] = e]
    /\ call' = NoCall
    /\ result' = NoResult

\* The external writer removes an entry.
RemoveFile(n) ==
    /\ call = NoCall
    /\ dir[n] # "absent"
    /\ dir' = [dir EXCEPT ![n] = "absent"]
    /\ call' = NoCall
    /\ result' = NoResult

GetDocumentContent(id, v, io, order) ==
    /\ call = NoCall
    /\ call' = Call("get_document_content", id, v, None, <<>>, NoFilters, io, order)
    /\ result' = get_document_content(dir, io, order, id, v)
    /\ UNCHANGED dir

GetDocumentMetadata(id, v, io, order) ==
    /\ call = NoCall
    /\ call' = Call("get_document_metadata", id, v, None, <<>>, NoFilters, io, order)
    /\ result' = get_document_metadata(dir, io, order, id, v)
    /\ UNCHANGED dir

GetChapterContent(id, title, v, io, order) ==
    /\ call = NoCall
    /\ call' = Call("get_chapter_content", id, v, None, title, NoFilters, io, order)
    /\ result' = get_chapter_content(dir, io, order, id, title, v)
    /\ UNCHANGED dir

DiffDocumentVersions(id, from, to, io, order) ==
    /\ call = NoCall
    /\ call' = Call("diff_document_versions", id, Some(from), Some(to), <<>>,
                    NoFilters, io, order)
    /\ result' = diff_document_versions(dir, io, order, id, from, to)
    /\ UNCHANGED dir

ListDocuments(status, type, author, io, order) ==
    /\ call = NoCall
    /\ call' = Call("list_documents", 0, None, None, <<>>,
                    <<status, type, author>>, io, order)
    /\ result' = list_documents(dir, io, order, status, type, author)
    /\ UNCHANGED dir

ListDocumentVersions(id, io, order) ==
    /\ call = NoCall
    /\ call' = Call("list_document_versions", id, None, None, <<>>, NoFilters, io, order)
    /\ result' = list_document_versions(dir, io, order, id)
    /\ UNCHANGED dir

\* The caller takes the result; the server is idle again.
Return ==
    /\ call # NoCall
    /\ call' = NoCall
    /\ result' = NoResult
    /\ UNCHANGED dir

\* A call with version None lists the directory; one with a version does
\* not.  The order of the listing decides between entries of equal version
\* only, so it is varied where the entries are walked through in order.
Next ==
    \/ \E n \in DocNames, e \in Entries \ {"absent"} : AddFile(n, e)
    \/ \E n \in OtherNames, e \in {"draft", "dir"} : AddFile(n, e)
    \/ \E n \in Names : RemoveFile(n)
    \/ Return
    \/ \E id \in Ids, io \in ScanIOs \cup PathIOs :
        \/ GetDocumentContent(id, None, io, Ascending(dir))
        \/ GetDocumentMetadata(id, None, io, Ascending(dir))
        \/ \E t \in Titles : GetChapterContent(id, t, None, io, Ascending(dir))
    \/ \E id \in Ids, v \in Versions, io \in PathIOs :
        \/ GetDocumentContent(id, Some(v), io, <<>>)
        \/ GetDocumentMetadata(id, Some(v), io, <<>>)
        \/ \E t \in Titles : GetChapterContent(id, t, Some(v), io, <<>>)
        \/ \E to \in Versions : DiffDocumentVersions(id, v, to, io, <<>>)
    \/ \E s \in StatusArgs, a \in AuthorArgs, t \in TypeArgs :
        \/ \E io \in ScanIOs : ListDocuments(s, t, a, io, Ascending(dir))
        \/ ListDocuments(s, t, a, NoIO, Reverse(Ascending(dir)))
    \/ \E id \in Ids :
        \/ \E io \in ScanIOs : ListDocumentVersions(id, io, Ascending(dir))
        \/ ListDocumentVersions(id, NoIO, Reverse(Ascending(dir)))

Spec == Init /\ [][Next]_vars

----------------------------------------------------------------------------
(* the tools step by step, with the external writer in between *)

\* What the writer stores while a call may be under way.
RaceKinds == {"draft", "ints", "badutf8"}

\* A call under way: where it stands (stage), the version it resolved, the
\* entries docs_path.glob gave that are still to be tested (globbed), the
\* listing it has made of them (files), what is left of its loop (todo) and
\* what it has gathered (acc), the paths it saw listed or existing (seen),
\* those of them it then found gone (vanished), and the names the writer
\* touched since the call began (touched).
Progress(c, stage, resolved, files, todo, seen) ==
    [op |-> c.op, id |-> c.id, version |-> c.version,
     to_version |-> c.to_version, title |-> c.title, filters |-> c.filters,
     io |-> c.io, order |-> c.order, stage |-> stage, resolved |-> resolved,
     globbed |-> IF stage = "list" THEN c.order ELSE <<>>,
     files |-> files, todo |-> todo, acc |-> <<>>, seen |-> seen,
     vanished |-> {}, touched |-> {}]
RaceIdle == Progress(NoCall, "idle", 0, <<>>, <<>>, {})

RaceInit ==
    /\ dir = [n \in Names |-> "absent"]
    /\ call = RaceIdle
    /\ result = NoResult

\* The except clauses of the tool `op`.
tool_except(op, e) ==
    IF op = "get_document_content" THEN get_document_content_except(e)
    ELSE IF op = "get_document_metadata" THEN get_document_metadata_except(e)
    ELSE IF op = "get_chapter_content" THEN get_chapter_content_except(e)
    ELSE diff_document_versions_except(e)

\* The writer creates or removes an entry, at any moment of a call.
RaceWrite(n, e) ==
    /\ call.stage # "done"
    /\ call.stage # "idle" =>
           (n \notin call.touched /\ Cardinality(call.touched) < MaxWrites)
    /\ \/ dir[n] = "absent" /\ e # "absent"
                            /\ Cardinality(Present(dir)) < MaxFiles
       \/ dir[n] # "absent" /\ e = "absent"
    /\ dir' = [dir EXCEPT ![n] = e]
    /\ call' = IF call.stage = "idle" THEN call
               ELSE [call EXCEPT !.touched = @ \cup {n}]
    /\ UNCHANGED result

\* The call ends with result r.
Finish(c, r) ==
    /\ call' = [c EXCEPT !.stage = "done"]
    /\ result' = r
    /\ UNCHANGED dir

\* A tool on one document begins.  With a version, find_document_path goes
\* on to path.exists(); without one, get_all_document_files takes what
\* docs_path.glob gives at this moment, in the order `order` of the file
\* system, in which the entries are then tested one after another.
BeginDocument(op, id, v, to, title, order) ==
    LET of(c) ==
            IF v = None THEN Progress(c, "list", 0, <<>>, <<>>, {})
            ELSE Progress(c, "resolve", v[1], <<>>, <<>>, {})
    IN  /\ call.stage = "idle"
        /\ call' = of(Call(op, id, v, to, title, NoFilters, NoIO, order))
        /\ UNCHANGED <<dir, result>>

\* get_all_document_files goes through the entries docs_path.glob gave:
\* path.is_file() and the file name pattern, one entry at a time, on the
\* directory as it is by then.  After the last entry the caller goes on:
\* find_document_path with the latest version of the files listed (listed:
\* the files the enumeration returned, whatever has become of them since),
\* or the loop of the batch tool.
List ==
    LET paths(files) == [i \in 1..Len(files) |-> files[i][3]]
        listed(files) == [n \in Names |->
                             IF \E i \in 1..Len(files) : files[i][3] = n
                             THEN "draft" ELSE "absent"]
        ids(files)  == Unique({}, [i \in 1..Len(files) |-> files[i][1]])
        mine(files) == SelectSeq(files, LAMBDA f : f[1] = call.id)
        latest(files, wanted) ==
            IF wanted.exc # NoExc
            THEN Finish(call, tool_except(call.op, wanted.exc))
            ELSE /\ call' = [call EXCEPT
                                !.stage = "resolve",
                                !.resolved = wanted.version[1],
                                !.seen = {files[i][3] : i \in {j \in 1..Len(files) :
                                             /\ files[j][1] = call.id
                                             /\ Some(files[j][2]) = wanted.version}}]
                 /\ UNCHANGED <<dir, result>>
        batch(files) ==
            /\ call' = [call EXCEPT
                           !.stage = "scan",
                           !.todo = IF call.op = "list_documents" THEN ids(files)
                                    ELSE mine(files),
                           !.seen = {files[i][3] : i \in 1..Len(files)}]
            /\ UNCHANGED <<dir, result>>
        entry(path) ==
            /\ call' = [call EXCEPT
                           !.globbed = Tail(@),
                           !.files = @ \o get_all_document_files_loop(dir, NoIO, <<path>>)]
            /\ UNCHANGED <<dir, result>>
        done(files) ==
            IF call.op \in {"list_documents", "list_document_versions"}
            THEN batch(files)
            ELSE latest(files,
                        find_document_version(listed(files), NoIO, paths(files),
                                              call.id, None))
    IN  /\ call.stage = "list"
        /\ IF call.globbed # <<>> THEN entry(Head(call.globbed))
           ELSE done(call.files)

\* find_document_path, second half: path.exists(), for the version asked
\* for and, in diff_document_versions, then for to_version.
Resolve ==
    LET gone(path) == IF path \in call.seen THEN {path} ELSE {}
        at(path, found) ==
            IF found.exc # NoExc
            THEN Finish([call EXCEPT !.vanished = @ \cup gone(path)],
                        tool_except(call.op, found.exc))
            ELSE /\ call' = [call EXCEPT
                                !.seen = @ \cup {path},
                                !.stage = IF call.op = "diff_document_versions"
                                             /\ call.stage = "resolve"
                                          THEN "resolve_new" ELSE "read"]
                 /\ UNCHANGED <<dir, result>>
        of(w) == at(DocFileName(call.id, w), find_document_file(dir, NoIO, call.id, w))
    IN  /\ call.stage \in {"resolve", "resolve_new"}
        /\ of(IF call.stage = "resolve" THEN call.resolved ELSE call.to_version[1])

\* The read that ends a tool on one document; in diff_document_versions
\* the read of the old file, which the read of the new file follows.  In
\* get_document_metadata, parse_document first tests path.exists() (stage
\* "read") and then calls path.read_text() (stage "parse"), whose
\* FileNotFoundError is that of the file system.
Read ==
    LET gone(path) == IF exists(dir, path) THEN {} ELSE {path}
        parse(c, path) ==
            IF call.stage = "read" /\ exists(dir, path)
            THEN /\ call' = [call EXCEPT !.stage = "parse"]
                 /\ UNCHANGED <<dir, result>>
            ELSE IF call.stage = "parse" /\ ~exists(dir, path)
            THEN Finish(c, get_document_metadata_except(
                               ReadExc("FileNotFoundError", path)))
            ELSE Finish(c, get_document_metadata_read(dir, NoIO, path,
                                                      call.id, call.resolved))
        old(c, path, read) ==
            IF read.exc # "none"
            THEN Finish(c, diff_document_versions_except(ReadExc(read.exc, path)))
            ELSE /\ call' = [call EXCEPT !.stage = "read_new", !.acc = <<read.key>>]
                 /\ UNCHANGED <<dir, result>>
        at(c, path) ==
            IF call.op = "get_document_content"
            THEN Finish(c, get_document_content_read(dir, path))
            ELSE IF call.op = "get_document_metadata" THEN parse(c, path)
            ELSE IF call.op = "get_chapter_content"
            THEN Finish(c, get_chapter_content_read(dir, path, call.id, call.title))
            ELSE old(c, path, read_text(dir, path))
        of(path) == at([call EXCEPT !.vanished = @ \cup gone(path)], path)
    IN  /\ call.stage \in {"read", "parse"}
        /\ of(DocFileName(call.id, call.resolved))

\* diff_document_versions reads the new file and compares.
ReadNew ==
    LET gone(path) == IF exists(dir, path) THEN {} ELSE {path}
        new(c, path, read) ==
            IF read.exc # "none"
            THEN Finish(c, diff_document_versions_except(ReadExc(read.exc, path)))
            ELSE Finish(c, OkR(DiffChanges[call.acc[1], read.key, call.id,
                                           call.resolved, call.to_version[1]]))
        of(path) == new([call EXCEPT !.vanished = @ \cup gone(path)], path,
                        read_text(dir, path))
    IN  /\ call.stage = "read_new"
        /\ of(DocFileName(call.id, call.to_version[1]))

\* list_documents or list_document_versions begins: get_all_document_files
\* takes what docs_path.glob gives at this moment, in the order `order` of
\* the file system.
BeginBatch(op, id, filters, order) ==
    /\ call.stage = "idle"
    /\ call' = Progress(Call(op, id, None, None, <<>>, filters, NoIO, order),
                        "list", 0, <<>>, <<>>, {})
    /\ UNCHANGED <<dir, result>>

\* One turn of the loop of scan_documents or of list_document_versions.  In
\* list_document_versions the turn is parse_document, whose path.exists()
\* and path.read_text() both end in the same `continue` when the file is
\* gone, so the turn is one step.
Scan ==
    LET gone(path) == IF exists(dir, path) THEN {} ELSE {path}
        kept(one) == IF ~one.keep THEN <<>>
                     ELSE IF call.op = "list_documents" THEN <<one.summary>>
                     ELSE <<one.info>>
        then(c, one) ==
            IF one.exc # NoExc THEN Finish(c, RaiseR(one.exc))
            ELSE /\ call' = [c EXCEPT !.todo = Tail(@), !.acc = @ \o kept(one)]
                 /\ UNCHANGED <<dir, result>>
        step(entry) ==
            IF call.op = "list_documents"
            THEN scan_documents_step(dir, NoIO, entry[1], entry[2], entry[3],
                                     call.filters[1], call.filters[2], call.filters[3])
            ELSE list_document_versions_step(dir, NoIO, entry[1], entry[2], entry[3])
        of(entry) == then([call EXCEPT !.vanished = @ \cup gone(entry[3])],
                          step(entry))
    IN  /\ call.stage = "scan"
        /\ call.todo # <<>>
        /\ of(IF call.op = "list_documents"
              THEN LatestEntry(call.files, Head(call.todo))
              ELSE Head(call.todo))

\* The loop is over: the batch tool returns what it gathered.
ScanEnd ==
    /\ call.stage = "scan"
    /\ call.todo = <<>>
    /\ IF call.op = "list_documents" THEN Finish(call, OkR(call.acc))
       ELSE Finish(call, list_document_versions_end(call.acc, call.id))

\* The caller takes the result.
RaceReturn ==
    /\ call.stage = "done"
    /\ call' = RaceIdle
    /\ result' = NoResult
    /\ UNCHANGED dir

RaceNext ==
    \/ \E n \in DocNames, e \in RaceKinds \cup {"absent"} : RaceWrite(n, e)
    \/ \E id \in Ids, v \in VersionArgs :
        \E order \in IF v = None
                      THEN {Ascending(dir), Reverse(Ascending(dir))}
                      ELSE {<<>>} :
            \/ BeginDocument("get_document_content", id, v, None, <<>>, order)
            \/ BeginDocument("get_document_metadata", id, v, None, <<>>, order)
            \/ \E t \in Titles :
                   BeginDocument("get_chapter_content", id, v, None, t, order)
    \/ \E id \in Ids, v, to \in Versions :
        BeginDocument("diff_document_versions", id, Some(v), Some(to), <<>>, <<>>)
    \/ \E a \in AuthorArgs, order \in {Ascending(dir), Reverse(Ascending(dir))} :
        BeginBatch("list_documents", 0, <<None, None, a>>, order)
    \/ \E id \in Ids, order \in {Ascending(dir), Reverse(Ascending(dir))} :
        BeginBatch("list_document_versions", id, NoFilters, order)
    \/ List
    \/ Resolve
    \/ Read
    \/ ReadNew
    \/ Scan
    \/ ScanEnd
    \/ RaceReturn

RaceSpec == RaceInit /\ [][RaceNext]_vars

----------------------------------------------------------------------------
(* the tools on texts of a few lines *)

\* The text that holds the given lines, each ended by a line break.
RECURSIVE JoinLines(_)
JoinLines(lines) ==
    IF lines = <<>> THEN <<>>
    ELSE Head(lines) \o <<"\n">> \o JoinLines(Tail(lines))

\* The sequences of at most n lines of the set S.
LinesUpTo(S, n) == UNION {[1..k -> S] : k \in 0..n}

\* A caller asks for a chapter of a text, or for the changes from a text
\* to another.
TextInit ==
    /\ dir = [n \in Names |-> "absent"]
    /\ call \in
         {[op |-> "get_chapter_content", stage |-> "asked", old |-> lines,
           new |-> <<>>, title |-> t] :
              lines \in LinesUpTo({<<"#","#"," ","a">>, <<"#","#"," ","A">>,
                                   <<"#","#"," ","b">>, <<"#","#"," "," ","A"," ">>,
                                   <<"#","#","#"," ","A">>, <<"#","#">>, <<"A">>,
                                   <<"x">>, <<>>}, MaxLines),
              t \in {<<"a">>, <<"A">>, <<"B">>}}
         \cup
         {[op |-> "diff_document_versions", stage |-> "asked", old |-> old,
           new |-> new, title |-> <<>>] :
              old \in LinesUpTo({<<"#","#"," ","A">>, <<"#","#"," ","B">>,
                                 <<"x">>, <<"y">>}, MaxDiffLines),
              new \in LinesUpTo({<<"#","#"," ","A">>, <<"#","#"," ","B">>,
                                 <<"x">>, <<"y">>}, MaxDiffLines)}
    /\ result = NoResult

\* get_chapter_content from the text read on.
FetchChapter ==
    /\ call.op = "get_chapter_content" /\ call.stage = "asked"
    /\ result' = get_chapter_content_of(JoinLines(call.old), 1, call.title)
    /\ call' = [call EXCEPT !.stage = "done"]
    /\ UNCHANGED dir

\* diff_document_versions(1, 1, 2) from the two texts read on.
DiffTexts ==
    /\ call.op = "diff_document_versions" /\ call.stage = "asked"
    /\ result' = OkR(diff_changes(JoinLines(call.old), JoinLines(call.new), 1, 1, 2))
    /\ call' = [call EXCEPT !.stage = "done"]
    /\ UNCHANGED dir

TextNext == FetchChapter \/ DiffTexts

TextSpec == TextInit /\ [][TextNext]_vars

----------------------------------------------------------------------------
(* the parsers on texts of a few lines *)

\* A text is to be parsed: lines with delimiters in them, the lines of a
\* body, or a frontmatter of a few lines before a title.
ParseInit ==
    /\ dir = [n \in Names |-> "absent"]
    /\ call \in
         {[op |-> "parse_document", stage |-> "asked", old |-> lines,
           new |-> <<>>, title |-> <<>>] :
              lines \in
                  LinesUpTo({<<"-","-","-">>, <<"k",":"," ","v">>,
                             <<"-","-","-","-">>,
                             <<"j",":"," ","a","-","-","-","b">>, <<" ">>,
                             <<" ","-","-","-">>, <<"#"," ","T">>}, MaxParseLines)
                  \cup
                  LinesUpTo({<<"#"," ","T">>, <<"#">>, <<"#","#"," ","A">>,
                             <<"#","#"," ","B">>, <<"#","#">>, <<"x">>,
                             <<"-","-","-">>, <<>>}, MaxParseLines)
                  \cup
                  {<<<<"-","-","-">>>> \o fm \o <<<<"-","-","-">>, <<"#"," ","T">>>> :
                      fm \in LinesUpTo({<<"k",":"," ","v">>,
                                       <<" ","k"," ",":"," ","\"","7","\""," ">>,
                                       <<"k",":"," ","'","w","'">>,
                                       <<"j",":"," ","0","7">>,
                                       <<"#"," ","c",":"," ","d">>, <<>>,
                                       <<"n","o","v","a","l","u","e">>,
                                       <<"j",":"," ","a",":","b">>,
                                       <<"k",":"," ","\"","v","'">>,
                                       <<"k",":">>, <<":"," ","x">>,
                                       <<"k",":"," ","\"">>}, MaxFmLines)}}
    /\ result = NoResult

\* The parsers of parse_document and of diff_document_versions on the text
\* read, and the answer of get_document_metadata(1, 1) for it.  parse_title
\* and parse_chapters are not called when parse_frontmatter raises.
ParseText ==
    LET metadata(parsed) ==
            IF parsed.exc # NoExc THEN get_document_metadata_except(parsed.exc)
            ELSE OkR(parsed.metadata)
        parsed(content, fm, boundaries) ==
            [frontmatter |-> fm,
             title |-> IF fm.exc = "none" THEN parse_title(fm.body)
                       ELSE [exc |-> "not called", title |-> <<>>],
             chapters |-> IF fm.exc = "none" THEN parse_chapters(fm.body) ELSE <<>>,
             boundaries |-> boundaries,
             line_map |-> get_line_to_chapter_map(boundaries),
             metadata |-> metadata(parse_document_content(content, 1, 1))]
        of(content) ==
            parsed(content, parse_frontmatter(content), get_chapter_boundaries(content))
    IN  /\ call.op = "parse_document" /\ call.stage = "asked"
        /\ result' = OkR(of(JoinLines(call.old)))
        /\ call' = [call EXCEPT !.stage = "done"]
        /\ UNCHANGED dir

ParseNext == ParseText

ParseSpec == ParseInit /\ [][ParseNext]_vars

----------------------------------------------------------------------------
(* properties *)

\* The tools that work on one document, and the texts that parse.
DocumentTools == {"get_document_content", "get_document_metadata",
                  "get_chapter_content", "diff_document_versions"}
WellFormed == {"draft", "approved", "fmid"}

\* C1: with the version absent and at least one file enumerated for the id,
\* find_document_path returns the path and the number of the highest version
\* among the files of the id; fetch content, fetch metadata and fetch chapter
\* called without a version work on that version.
C1_LatestIsMaximum ==
    \A id \in Ids :
        LET files == get_all_document_files(dir, NoIO, Ascending(dir))
            mine  == {i \in 1..Len(files) : files[i][1] = id}
            top   == Max({files[i][2] : i \in mine})
            tops  == {i \in mine : files[i][2] = top}
            found == find_document_path(dir, NoIO, Ascending(dir), id, None)
        IN  mine # {} =>
              /\ found.exc = NoExc
              /\ found.version = top
              /\ \E i \in tops : files[i][3] = found.path
              /\ ( /\ call.op \in DocumentTools
                   /\ call.id = id
                   /\ call.version = None
                   /\ call.io = NoIO )
                 => /\ ~(result.kind = "error" /\ result.code = "NOT_FOUND")
                    /\ call.op = "get_document_content" =>
                         \E i \in tops :
                             dir[files[i][3]] \in DocKeys
                                 => result = OkR(Text(dir[files[i][3]]))

\* C2: the id and version of the metadata record returned by fetch metadata
\* are the id and version of the file name, whatever the frontmatter holds.
C2_IdVersionFromFilename ==
    (call.op = "get_document_metadata" /\ result.kind = "ok") =>
        LET found == find_document_path(dir, call.io, call.order,
                                        call.id, call.version)
            name  == FILENAME_PATTERN(found.path)
        IN  /\ DictGet(result.value, KeyId, NA) = IntV(int(name.g1))
            /\ DictGet(result.value, KeyVersion, NA) = IntV(int(name.g2))

\* C4: fetch content, fetch metadata, fetch chapter and diff versions return
\* a success payload or a structured error whose code is NOT_FOUND,
\* INVALID_FORMAT, CHAPTER_NOT_FOUND or READ_ERROR, in every directory and
\* whatever the read does; no exception escapes.
C4_NoExceptionEscapes ==
    call.op \in DocumentTools =>
        \/ result.kind = "ok"
        \/ /\ result.kind = "error"
           /\ result.code \in {"NOT_FOUND", "INVALID_FORMAT",
                               "CHAPTER_NOT_FOUND", "READ_ERROR"}

\* C5: in fetch content, fetch metadata, fetch chapter and diff versions,
\* when the file was resolved as existing and reading it fails (permission
\* denied, I/O error, encoding error, out of memory), the code returned is
\* READ_ERROR.
C5_ReadFailureIsReadError ==
    LET found(v) == find_document_path(dir, call.io, call.order, call.id, v)
        fails(v) == read_text(dir, found(v).path).exc # "none"
        resolved == /\ found(call.version).exc = NoExc
                    /\ call.op = "diff_document_versions"
                           => found(call.to_version).exc = NoExc
        failed   == \/ fails(call.version)
                    \/ /\ call.op = "diff_document_versions"
                       /\ fails(call.to_version)
    IN  (call.op \in DocumentTools /\ resolved /\ failed) =>
            (result.kind = "error" /\ result.code = "READ_ERROR")

\* The latest documents of the directory as list_documents picks them in
\* the call at hand: for each id enumerated, the entry of its latest file.
LatestKinds ==
    LET files == get_all_document_files(dir, call.io, call.order)
    IN  [id \in {files[i][1] : i \in 1..Len(files)} |->
            dir[LatestEntry(files, id)[3]]]
ListedIds == {result.value[i].id : i \in 1..Len(result.value)}

\* A call of list_documents with status="Approved" and no other filter, in
\* a directory whose latest documents have status Draft, Approved or none.
ApprovedListing ==
    /\ call.op = "list_documents"
    /\ call.filters = <<Some(<<"A","p","p","r","o","v","e","d">>), None, None>>
    /\ call.io = NoIO
    /\ \A id \in DOMAIN LatestKinds : LatestKinds[id] \in WellFormed

\* C3, as claimed: list documents with status="Approved" returns exactly the
\* documents whose status is Approved; those with status Draft and those
\* with no status are excluded.
C3_OnlyApproved ==
    ApprovedListing =>
        /\ result.kind = "ok"
        /\ ListedIds = {id \in DOMAIN LatestKinds : LatestKinds[id] = "approved"}

\* C3, as the code has it: list documents with status="Approved" returns
\* exactly the documents whose status is Approved or absent (reported as
\* "NA"); those with status Draft are excluded.
C3_ApprovedOrAbsent ==
    ApprovedListing =>
        /\ result.kind = "ok"
        /\ ListedIds = {id \in DOMAIN LatestKinds :
                           LatestKinds[id] \in {"approved", "fmid"}}
        /\ \A i \in 1..Len(result.value) :
               result.value[i].status =
                   IF LatestKinds[result.value[i].id] = "approved"
                   THEN <<"A","p","p","r","o","v","e","d">> ELSE <<"N","A">>

\* A listing by status="Approved" over a document without status and a
\* Draft one: the first is returned, the second is not.
C3_Witness ==
    /\ ApprovedListing
    /\ \E a, b \in DOMAIN LatestKinds :
           LatestKinds[a] = "fmid" /\ LatestKinds[b] = "draft"
    /\ Len(result.value) = 1

\* C7: list documents and list versions never fail as a whole because of
\* one document: whatever a file holds, no exception escapes, and every
\* document that parses still appears in the result.
C7_BatchNeverFails ==
    LET files == get_all_document_files(dir, call.io, call.order)
    IN  /\ call.op = "list_documents" =>
            /\ result.kind = "ok"
            /\ call.filters = NoFilters =>
                   \A id \in DOMAIN LatestKinds :
                       LatestKinds[id] \in WellFormed => id \in ListedIds
        /\ call.op = "list_document_versions" =>
            /\ result.kind # "raise"
            /\ \A i \in 1..Len(files) :
                   (files[i][1] = call.id /\ dir[files[i][3]] \in WellFormed) =>
                       /\ result.kind = "ok"
                       /\ \E j \in 1..Len(result.value) :
                              result.value[j].version = files[i][2]

\* C8: the pair (id, version) maps one-to-one to a file: no two enumerated
\* entries carry the same (id, version), and for every enumerated entry
\* find_document_path(id, version) succeeds and returns the entry's path.
C8_OneFilePerVersion ==
    LET files == get_all_document_files(dir, NoIO, Ascending(dir))
    IN  /\ \A i, j \in 1..Len(files) :
               (files[i][1] = files[j][1] /\ files[i][2] = files[j][2]) => i = j
        /\ \A i \in 1..Len(files) :
               LET found == find_document_path(dir, NoIO, Ascending(dir),
                                               files[i][1], Some(files[i][2]))
               IN  found.exc = NoExc /\ found.path = files[i][3]

\* C9: every tool call reflects the directory as it is when the call is
\* made, after any additions and removals: fetch content and fetch metadata
\* without a version resolve to the highest version present of the id, and
\* list documents and list versions report exactly the documents present.
C9_ReflectsDirectory ==
    LET files == get_all_document_files(dir, NoIO, call.order)
        mine  == {i \in 1..Len(files) : files[i][1] = call.id}
        top   == Max({files[i][2] : i \in mine})
        tops  == {i \in mine : files[i][2] = top}
        sound == \A i \in 1..Len(files) : dir[files[i][3]] \in WellFormed
    IN  (call.io = NoIO /\ sound) =>
          /\ (call.op = "get_document_content" /\ call.version = None
                  /\ mine # {}) =>
                 \E i \in tops : result = OkR(Text(dir[files[i][3]]))
          /\ (call.op = "get_document_metadata" /\ call.version = None
                  /\ mine # {}) =>
                 /\ result.kind = "ok"
                 /\ DictGet(result.value, KeyTitle, NA) = StrV(<<"T">>)
          /\ (call.op = "list_documents" /\ call.filters = NoFilters) =>
                 /\ result.kind = "ok"
                 /\ ListedIds = {files[i][1] : i \in 1..Len(files)}
                 /\ \A j \in 1..Len(result.value) :
                        \A i \in 1..Len(files) :
                            files[i][1] = result.value[j].id =>
                                files[i][2] <= result.value[j].latest_version
          /\ (call.op = "list_document_versions" /\ mine # {}) =>
                 /\ result.kind = "ok"
                 /\ {result.value[j].version : j \in 1..Len(result.value)}
                        = {files[i][2] : i \in mine}
          /\ (call.op = "list_document_versions" /\ mine = {}) =>
                 (result.kind = "error" /\ result.code = "NOT_FOUND")

\* C10: find_document_path tells two not-found cases apart, and the tools
\* return both as NOT_FOUND: with the version absent and no file enumerated
\* for the id, "Document {id} not found"; with an explicit version, or the
\* latest one resolved, whose file {id}_v{version}.md does not exist,
\* "Document {id} version {version} not found", whatever other versions of
\* the id exist.
C10_TwoNotFoundCases ==
    LET files == get_all_document_files(dir, NoIO, Ascending(dir))
        no_document(id) ==
            Exc("FileNotFoundError", Msg("Document {doc_id} not found", <<id>>))
        no_version(id, v) ==
            Exc("FileNotFoundError",
                Msg("Document {doc_id} version {version} not found", <<id, v>>))
        expected(id, version) ==
            LET mine == {files[i][2] : i \in {j \in 1..Len(files) : files[j][1] = id}}
                v    == IF version = None THEN Max(mine) ELSE version[1]
            IN  IF version = None /\ mine = {} THEN no_document(id)
                ELSE IF DocFileName(id, v) \notin Present(dir) THEN no_version(id, v)
                ELSE NoExc
        surfaced(e) == e = NoExc \/ result = ErrR("NOT_FOUND", e.message)
    IN  /\ \A id \in Ids, version \in VersionArgs :
               find_document_path(dir, NoIO, Ascending(dir), id, version).exc
                   = expected(id, version)
        /\ (call.op \in DocumentTools /\ call.io = NoIO) =>
               IF expected(call.id, call.version) # NoExc
               THEN surfaced(expected(call.id, call.version))
               ELSE call.op = "diff_document_versions" =>
                        surfaced(expected(call.id, call.to_version))

\* Version 2 of document 1 is asked for and is not there, while version 1
\* is: the call ends with NOT_FOUND and the message that names the version.
C10_Witness ==
    /\ call.op = "get_document_content"
    /\ call.id = 1
    /\ call.version = Some(2)
    /\ dir[N1v1] \in WellFormed
    /\ dir[N1v2] = "absent"
    /\ result.code = "NOT_FOUND"
    /\ result.message =
           Msg("Document {doc_id} version {version} not found", <<1, 2>>)

\* C6: whatever the writer does between the steps of a call, a file that
\* disappears after it was listed or found and before it is read makes
\* fetch content, fetch metadata, fetch chapter and diff versions return
\* NOT_FOUND, and makes list documents and list versions leave out that item
\* only; the call never ends with an exception.
C6_VanishedFileIsNotFound ==
    (call.stage = "done" /\ call.vanished # {}) =>
        /\ call.op \in DocumentTools =>
               (result.kind = "error" /\ result.code = "NOT_FOUND")
        /\ call.op = "list_documents" =>
            /\ result.kind = "ok"
            /\ \A id \in ListedIds :
                   LatestEntry(call.files, id)[3] \notin call.vanished
            /\ call.filters = NoFilters =>
                   \A i \in 1..Len(call.files) :
                       LET path == LatestEntry(call.files, call.files[i][1])[3]
                       IN  (path \notin call.touched /\ dir[path] \in WellFormed)
                               => call.files[i][1] \in ListedIds
        /\ call.op = "list_document_versions" =>
            /\ result.kind # "raise"
            /\ \A i \in 1..Len(call.files) :
                   ( /\ call.files[i][1] = call.id
                     /\ call.files[i][3] \notin call.touched
                     /\ dir[call.files[i][3]] \in WellFormed ) =>
                       /\ result.kind = "ok"
                       /\ \E j \in 1..Len(result.value) :
                              result.value[j].version = call.files[i][2]

\* C11: for every existing (id, version) whose file can be read, fetch
\* content returns exactly the text stored in the file, whether or not that
\* text parses as a document.
C11_ContentIsStoredText ==
    call.op = "get_document_content" =>
        LET found == find_document_path(dir, call.io, call.order,
                                        call.id, call.version)
        IN  (found.exc = NoExc /\ dir[found.path] \in DocKeys) =>
                result = OkR(Stored(dir[found.path]))

\* C12: for every document with well-formed frontmatter and a title, the
\* metadata record binds every frontmatter key other than author and date
\* to the value the frontmatter parser produced, its author and date are
\* the frontmatter values when present and "NA" when absent, and the six
\* core fields id, version, title, author, date, chapters are present.
C12_FrontmatterPassedThrough ==
    (call.op = "get_document_metadata" /\ call.io = NoIO) =>
        LET record(fm) ==
                /\ result.kind = "ok"
                /\ \A i \in 1..Len(fm) :
                       fm[i][1] \notin {KeyAuthor, KeyDate} =>
                           DictGet(result.value, fm[i][1], None) = fm[i][2]
                /\ DictGet(result.value, KeyAuthor, None) = DictGet(fm, KeyAuthor, NA)
                /\ DictGet(result.value, KeyDate, None) = DictGet(fm, KeyDate, NA)
                /\ {KeyId, KeyVersion, KeyTitle, KeyAuthor, KeyDate, KeyChapters}
                       \subseteq DictKeys(result.value)
            of(key) ==
                (key \in DocKeys /\ Frontmatters[key].exc = "none"
                     /\ BodyTitles[key].exc = "none") =>
                    record(Frontmatters[key].frontmatter)
            at(found) == found.exc = NoExc => of(dir[found.path])
        IN  at(find_document_path(dir, NoIO, call.order, call.id, call.version))

\* The metadata of a document whose frontmatter holds status,
\* document_type and author, and no date.
C12_Witness ==
    /\ call.op = "get_document_metadata"
    /\ call.io = NoIO
    /\ call.id = 1
    /\ call.version = Some(1)
    /\ dir[N1v1] = "approved"
    /\ result.kind = "ok"
    /\ DictGet(result.value, KeyDocumentType, NA) = StrV(<<"G","u","i","d","e">>)
    /\ DictGet(result.value, KeyAuthor, NA) = StrV(<<"B","o">>)
    /\ DictGet(result.value, KeyDate, None) = NA

----------------------------------------------------------------------------
(* The listing of documents and the latest file of each *)

\* The id and the version written in a file name.
NameId(n) == int(FilenameMatches[n].g1)
NameVersion(n) == int(FilenameMatches[n].g2)

\* The regular files of the directory that carry the highest version of
\* document doc_id.
HighestFiles(doc_id) ==
    LET mine == {n \in Names : dir[n] \in FileKinds /\ NameId(n) = doc_id}
    IN  {n \in mine : \A m \in mine : NameVersion(m) <= NameVersion(n)}

\* The file can be read, its frontmatter is closed and it has a title.
Parses(n) ==
    /\ dir[n] \in DocKeys
    /\ Frontmatters[dir[n]].exc = "none"
    /\ BodyTitles[dir[n]].exc = "none"

\* C13: whenever list documents returns (the directory being enumerated
\* without I/O failure), it returns at most one summary per document id;
\* each summary is built from a file with the maximum version of its id
\* (title, status and document type are those of that file) and its
\* latest_version is that maximum; an id whose maximum-version file cannot
\* be read or parsed is absent, even when an older version parses.
C13_OneSummaryFromLatest ==
    (call.op = "list_documents" /\ call.io = NoIO /\ result.kind = "ok") =>
        /\ \A i, j \in 1..Len(result.value) :
               result.value[i].id = result.value[j].id => i = j
        /\ \A i \in 1..Len(result.value) :
               \E n \in HighestFiles(result.value[i].id) :
                   /\ Parses(n)
                   /\ result.value[i].latest_version = NameVersion(n)
                   /\ result.value[i].title = BodyTitles[dir[n]].title
                   /\ StrV(result.value[i].status) =
                          DictGet(Frontmatters[dir[n]].frontmatter, KeyStatus, NA)
                   /\ StrV(result.value[i].document_type) =
                          DictGet(Frontmatters[dir[n]].frontmatter,
                                  KeyDocumentType, NA)
        /\ \A id \in Ids :
               (\A n \in HighestFiles(id) : ~Parses(n)) => id \notin ListedIds

\* Version 1 of document 1 parses and version 2 has no title: the listing
\* without filters is empty.
C13_Witness ==
    /\ call.op = "list_documents" /\ call.io = NoIO
    /\ call.filters = NoFilters
    /\ dir[N1v1] = "draft" /\ dir[N1v2] = "notitle"
    /\ result = OkR(<<>>)

----------------------------------------------------------------------------
(* The versions of one document *)

\* The files of document doc_id that can be read and parsed.
ParsingFiles(doc_id) ==
    {n \in Names : dir[n] \in FileKinds /\ NameId(n) = doc_id /\ Parses(n)}

\* The entries follow each other in ascending version order.
AscendingVersions(entries) ==
    \A i, j \in 1..Len(entries) : i < j => entries[i].version <= entries[j].version

\* Entry e is the entry {version, date, status, author} of file n.
EntryOf(e, n) ==
    /\ e.version = NameVersion(n)
    /\ StrV(e.date) = DictGet(Frontmatters[dir[n]].frontmatter, KeyDate, NA)
    /\ StrV(e.status) = DictGet(Frontmatters[dir[n]].frontmatter, KeyStatus, NA)
    /\ StrV(e.author) = DictGet(Frontmatters[dir[n]].frontmatter, KeyAuthor, NA)

\* C14: list versions(id) (the directory being enumerated without I/O
\* failure) returns one entry {version, date, status, author} for each file
\* of the id that parses, in ascending version order, skipping the files
\* that cannot be read or parsed; it returns a NOT_FOUND error exactly when
\* no file of the id parses.
C14_VersionsOfParsingFiles ==
    (call.op = "list_document_versions" /\ call.io = NoIO) =>
        IF ParsingFiles(call.id) = {}
        THEN result.kind = "error" /\ result.code = "NOT_FOUND"
        ELSE /\ result.kind = "ok"
             /\ Len(result.value) = Cardinality(ParsingFiles(call.id))
             /\ AscendingVersions(result.value)
             /\ \A n \in ParsingFiles(call.id) :
                    \E i \in 1..Len(result.value) : EntryOf(result.value[i], n)

----------------------------------------------------------------------------
(* The filters of the listing *)

\* The summaries of a listing, as a set.
Summaries(r) == {r.value[i] : i \in 1..Len(r.value)}

\* The listing of the directory at hand under the given filters, the file
\* system behaving as in the call made last.
ListingWith(status, type, author) ==
    list_documents(dir, call.io, call.order, status, type, author)

\* The author written in the latest file of document id, "NA" when none.
LatestAuthor(id) == DictGet(Frontmatters[LatestKinds[id]].frontmatter, KeyAuthor, NA)

\* C15: in list documents the filters combine conjunctively: for every
\* directory content the result returned under any combination of status,
\* document_type and author filters is the intersection of the results
\* under each of those filters alone, a filter that is None leaves the
\* result unchanged, and the author filter keeps a document with an author
\* exactly when the filter is a substring of that author, ignoring case.
C15_FiltersIntersect ==
    (call.op = "list_documents" /\ result.kind = "ok") =>
        LET all == ListingWith(None, None, None)
            byStatus == ListingWith(call.filters[1], None, None)
            byType == ListingWith(None, call.filters[2], None)
            byAuthor == ListingWith(None, None, call.filters[3])
        IN  /\ all.kind = "ok"
            /\ byStatus.kind = "ok" /\ byType.kind = "ok" /\ byAuthor.kind = "ok"
            /\ Summaries(result) =
                   Summaries(byStatus) \cap Summaries(byType) \cap Summaries(byAuthor)
            /\ call.filters[1] = None => byStatus = all
            /\ call.filters[2] = None => byType = all
            /\ call.filters[3] = None => byAuthor = all
            /\ call.filters[3] # None =>
                   \A e \in Summaries(all) :
                       (LatestKinds[e.id] \in DocKeys /\ LatestAuthor(e.id) # NA) =>
                           (e \in Summaries(byAuthor)
                               <=> Contains(Lower(LatestAuthor(e.id).s),
                                            Lower(call.filters[3][1])))

----------------------------------------------------------------------------
(* The enumeration of the document files *)

\* String s is one or more decimal digits.
Digits(s) == s # <<>> /\ \A i \in 1..Len(s) : s[i] \in {DigitSeq[k] : k \in 1..10}

\* The name reads <digits>_v<digits>.md from its first character to its
\* last, the first run of digits being a characters long.
ReadsAsDocument(n, a) ==
    /\ Digits(SubSeq(n, 1, a))
    /\ SubSeq(n, a + 1, a + 2) = <<"_", "v">>
    /\ Digits(SubSeq(n, a + 3, Len(n) - 3))
    /\ SubSeq(n, Len(n) - 2, Len(n)) = <<".", "m", "d">>

\* The entries the enumeration is to return for the directory at hand.
DocumentFiles ==
    {<<int(SubSeq(n, 1, a)), int(SubSeq(n, a + 3, Len(n) - 3)), n>> :
        <<n, a>> \in {p \in Names \X (1..Len(N1v02)) :
                        /\ p[2] < Len(p[1])
                        /\ dir[p[1]] \in FileKinds
                        /\ ReadsAsDocument(p[1], p[2])}}

\* The entries get_all_document_files returns in the call at hand.
Enumerated == get_all_document_files(dir, call.io, call.order)

\* C16: get_all_document_files (without I/O failure) returns one entry
\* (id, version, path) for exactly those directory entries whose full name
\* matches ^(\d+)_v(\d+)\.md$ and that are regular files; entries with
\* another name, and directories with a matching name, never appear; id and
\* version are the integers written in the name.
C16_EnumeratesMatchingFiles ==
    (call.op \in {"list_documents", "list_document_versions"} /\ call.io = NoIO) =>
        /\ {Enumerated[i] : i \in 1..Len(Enumerated)} = DocumentFiles
        /\ Len(Enumerated) = Cardinality(DocumentFiles)

\* A listing of a directory that holds a document file with a leading zero
\* and a file whose name has a character before the id: one entry,
\* (1, 2, 1_v02.md).
C16_Witness ==
    /\ call.op = "list_document_versions" /\ call.io = NoIO /\ call.id = 1
    /\ dir[N1v02] = "draft" /\ dir[Nx1v1] = "draft"
    /\ Enumerated = <<<<1, 2, N1v02>>>>
    /\ result.kind = "ok" /\ Len(result.value) = 1

\* C17: get_all_document_files never raises on an I/O failure: when the
\* existence check of the directory or its listing fails, the enumeration
\* is empty (list documents returns the empty list, list versions
\* NOT_FOUND); when the file-type check fails on one entry, that entry alone
\* is skipped and every other matching regular file is returned.
C17_EnumerationSurvivesIOFailure ==
    call.op \in {"list_documents", "list_document_versions"} =>
        /\ call.io.kind \in {"dir_exists_err", "glob_err"} =>
               /\ Enumerated = <<>>
               /\ call.op = "list_documents" => result = OkR(<<>>)
               /\ call.op = "list_document_versions" =>
                      result.kind = "error" /\ result.code = "NOT_FOUND"
        /\ call.io.kind = "is_file_err" =>
               /\ {Enumerated[i] : i \in 1..Len(Enumerated)} =
                      {f \in DocumentFiles : f[3] # call.io.name}
               /\ Len(Enumerated) = Cardinality({f \in DocumentFiles : f[3] # call.io.name})

\* The file-type check fails on 1_v2.md while 1_v1.md is listed too: the
\* versions of document 1 are version 1 alone.
C17_Witness ==
    /\ call.op = "list_document_versions" /\ call.id = 1
    /\ call.io = IO("is_file_err", N1v2)
    /\ dir[N1v1] = "draft" /\ dir[N1v2] = "draft"
    /\ Enumerated = <<<<1, 1, N1v1>>>>
    /\ result.kind = "ok" /\ Len(result.value) = 1 /\ result.value[1].version = 1

----------------------------------------------------------------------------
(* The chapter fetched by title *)

\* The line is a second-level heading: two hashes, white space, a title.
IsHeading2(line) ==
    /\ Len(line) >= 4
    /\ SubSeq(line, 1, 3) = <<"#", "#", " ">>
    /\ Strip(SubSeq(line, 4, Len(line))) # <<>>

\* The trimmed title of a second-level heading.
Trimmed(line) == Strip(SubSeq(line, 4, Len(line)))

\* The positions of the second-level headings among the lines.
Headings2(lines) == {i \in 1..Len(lines) : IsHeading2(lines[i])}

\* The heading to select: the first whose title is the requested one, else
\* the first whose title is the requested one ignoring case, else 0.
SelectedHeading(lines, title) ==
    LET exact == {i \in Headings2(lines) : Trimmed(lines[i]) = title}
        nocase == {i \in Headings2(lines) :
                      Lower(Trimmed(lines[i])) = Lower(title)}
    IN  IF exact # {} THEN Min(exact)
        ELSE IF nocase # {} THEN Min(nocase)
        ELSE 0

\* The text of the chapter whose heading is line k: from the heading up to
\* the next second-level heading or the end, without trailing white space.
ChapterText(lines, k) ==
    RStrip(JoinLines(SubSeq(lines, k,
               Min({i \in Headings2(lines) : i > k} \cup {Len(lines) + 1}) - 1)))

\* C18: fetch chapter selects the first second-level heading in document
\* order whose trimmed title equals the requested title exactly; only when
\* no heading matches exactly, the first whose title is equal ignoring case;
\* it returns that heading's actual title with the chapter's text; when
\* neither pass matches, or there is no second-level heading, the result is
\* a CHAPTER_NOT_FOUND error.
C18_ExactThenIgnoringCase ==
    (call.op = "get_chapter_content" /\ call.stage = "done") =>
        IF SelectedHeading(call.old, call.title) = 0
        THEN result.kind = "error" /\ result.code = "CHAPTER_NOT_FOUND"
        ELSE result = OkR([content |->
                               ChapterText(call.old,
                                           SelectedHeading(call.old, call.title)),
                           chapter_title |->
                               Trimmed(call.old[SelectedHeading(call.old, call.title)])])

----------------------------------------------------------------------------
(* The changes between two texts, chapter by chapter *)

\* C19: for every content X, the chapter-partitioned diff of X against
\* identical content returns an empty change list.
C19_IdenticalContentNoChanges ==
    (call.op = "diff_document_versions" /\ call.stage = "done"
        /\ call.old = call.new) => result = OkR(<<>>)

\* A text with chapter A twice and a line of text, compared with itself.
C19_Witness ==
    /\ call.op = "diff_document_versions" /\ call.stage = "done"
    /\ call.old = <<<<"#","#"," ","A">>, <<"x">>, <<"#","#"," ","A">>>>
    /\ call.new = call.old
    /\ result = OkR(<<>>)

\* The titles of the chapters of the lines.
ChapterTitles(lines) == {Trimmed(lines[i]) : i \in Headings2(lines)}

\* The lines of the chapter whose heading is line k.
ChapterAt(lines, k) ==
    SubSeq(lines, k,
           Min({i \in Headings2(lines) : i > k} \cup {Len(lines) + 1}) - 1)

\* The new lines are the old ones but for heading k, whose title differs.
RenamedAt(old, new, k) ==
    /\ Len(old) = Len(new)
    /\ k \in Headings2(old) \cap Headings2(new)
    /\ Trimmed(old[k]) # Trimmed(new[k])
    /\ \A i \in 1..Len(old) : i # k => old[i] = new[i]

\* The diff text is the two file names, a hunk header and the given lines,
\* each with the mark in front, and nothing else.
OnlyMarked(diff, mark, lines) ==
    LET of(text) ==
            /\ Len(text) = 3 + Len(lines)
            /\ text[1] = <<"-", "-", "-", " ">> \o DocFileName(1, 1)
            /\ text[2] = <<"+", "+", "+", " ">> \o DocFileName(1, 2)
            /\ SubSeq(text[3], 1, 3) = <<"@", "@", " ">>
            /\ \A i \in 1..Len(lines) : text[3 + i] = <<mark>> \o lines[i]
    IN  of(splitlines(diff))

\* The changes hold an entry under the old title of heading k with all
\* lines of the old chapter removed, and one under the new title with all
\* lines of the new chapter added.
TwoEntries(changes, old, new, k) ==
    /\ \E i \in 1..Len(changes) :
           /\ changes[i].chapter = Trimmed(old[k])
           /\ OnlyMarked(changes[i].diff, "-", ChapterAt(old, k))
    /\ \E i \in 1..Len(changes) :
           /\ changes[i].chapter = Trimmed(new[k])
           /\ OnlyMarked(changes[i].diff, "+", ChapterAt(new, k))

\* C20, as claimed: when a chapter is renamed between two revisions (same
\* body, different heading text), the diff holds two entries for it: one
\* under the old name whose diff consists only of removed lines, all of the
\* old chapter's lines, and one under the new name whose diff consists only
\* of added lines, all of the new chapter's lines.
C20_RenameGivesTwoEntries ==
    (call.op = "diff_document_versions" /\ call.stage = "done") =>
        \A k \in 1..Len(call.old) :
            RenamedAt(call.old, call.new, k) =>
                TwoEntries(result.value, call.old, call.new, k)

\* C20, as the code has it: when a chapter is renamed between two
\* revisions, no chapter of the old revision bears the new name and no
\* chapter of the new revision bears the old one, the diff holds two entries
\* for it: one under the old name whose diff consists only of removed
\* lines, all of the old chapter's lines, and one under the new name whose
\* diff consists only of added lines, all of the new chapter's lines.  (The
\* lines of the chapters of one name are compared together.)
C20_RenameToUnusedName ==
    (call.op = "diff_document_versions" /\ call.stage = "done") =>
        \A k \in 1..Len(call.old) :
            (/\ RenamedAt(call.old, call.new, k)
             /\ Trimmed(call.new[k]) \notin ChapterTitles(call.old)
             /\ Trimmed(call.old[k]) \notin ChapterTitles(call.new)) =>
                TwoEntries(result.value, call.old, call.new, k)

\* Chapter A with one line of text becomes chapter B: the entry of A
\* removes its two lines, the entry of B adds its two lines.
C20_Witness ==
    /\ call.op = "diff_document_versions" /\ call.stage = "done"
    /\ call.old = <<<<"#","#"," ","A">>, <<"x">>>>
    /\ call.new = <<<<"#","#"," ","B">>, <<"x">>>>
    /\ Len(result.value) = 2
    /\ result.value[1].chapter = <<"A">>
    /\ splitlines(result.value[1].diff)[3] = <<"@","@"," ","-","1",",","2"," ","+","0",",","0"," ","@","@">>
    /\ result.value[2].chapter = <<"B">>
    /\ splitlines(result.value[2].diff)[3] = <<"@","@"," ","-","0",",","0"," ","+","1",",","2"," ","@","@">>
    /\ TwoEntries(result.value, call.old, call.new, 1)

\* The number of chapters of the lines that bear the title.
TitleCount(lines, title) ==
    Cardinality({i \in Headings2(lines) : Trimmed(lines[i]) = title})

\* The changes hold an entry for the chapter name.
HasEntry(changes, name) == \E i \in 1..Len(changes) : changes[i].chapter = name

\* C21, as claimed: a chapter whose heading and body text are the same in
\* both revisions never appears in the diff's change list, whatever happens
\* to the other chapters.
C21_UnchangedChapterAbsent ==
    (call.op = "diff_document_versions" /\ call.stage = "done") =>
        \A k \in Headings2(call.old), j \in Headings2(call.new) :
            ChapterAt(call.old, k) = ChapterAt(call.new, j) =>
                ~HasEntry(result.value, Trimmed(call.old[k]))

\* C21, as the code has it: a chapter whose heading and body text are the
\* same in both revisions, and whose name no other chapter of either
\* revision bears, never appears in the diff's change list, whatever
\* happens to the other chapters.  (The lines of the chapters of one name
\* are compared together.)
C21_UnchangedUniqueChapterAbsent ==
    (call.op = "diff_document_versions" /\ call.stage = "done") =>
        \A k \in Headings2(call.old), j \in Headings2(call.new) :
            (/\ ChapterAt(call.old, k) = ChapterAt(call.new, j)
             /\ TitleCount(call.old, Trimmed(call.old[k])) = 1
             /\ TitleCount(call.new, Trimmed(call.old[k])) = 1) =>
                ~HasEntry(result.value, Trimmed(call.old[k]))

\* Chapter A loses its line of text and chapter B stays as it was: the
\* changes name chapter A alone.
C21_Witness ==
    /\ call.op = "diff_document_versions" /\ call.stage = "done"
    /\ call.old = <<<<"#","#"," ","A">>, <<"x">>, <<"#","#"," ","B">>>>
    /\ call.new = <<<<"#","#"," ","A">>, <<"#","#"," ","B">>>>
    /\ Len(result.value) = 1
    /\ result.value[1].chapter = <<"A">>
    /\ ~HasEntry(result.value, <<"B">>)

----------------------------------------------------------------------------
(* Documents without chapters *)

\* The lines of the stored text have no second-level heading.
NoChapters(k) == Headings2(splitlines(Text(k))) = {}

\* C22: when a document revision has no second-level heading at all and is
\* diffed against a modified sibling version (one without second-level
\* heading either) whose frontmatter or title text differs, the diff
\* returns exactly one entry, named "Metadata", never zero entries.
C22_NoChaptersOneMetadataEntry ==
    call.op = "diff_document_versions" =>
        LET old == find_document_path(dir, call.io, call.order,
                                      call.id, call.version)
            new == find_document_path(dir, call.io, call.order,
                                      call.id, call.to_version)
        IN  (/\ old.exc = NoExc /\ dir[old.path] \in DocKeys
             /\ new.exc = NoExc /\ dir[new.path] \in DocKeys
             /\ NoChapters(dir[old.path]) /\ NoChapters(dir[new.path])
             /\ splitlines(Text(dir[old.path])) # splitlines(Text(dir[new.path]))) =>
                /\ result.kind = "ok"
                /\ Len(result.value) = 1
                /\ result.value[1].chapter = Metadata

\* Version 1 and version 2 of document 1 have a title and no chapter, and
\* their frontmatter differs: the one entry is that of Metadata, and it
\* takes away the frontmatter line `id: 9`.
C22_Witness ==
    /\ call.op = "diff_document_versions"
    /\ call.id = 1 /\ call.version = Some(1) /\ call.to_version = Some(2)
    /\ dir[N1v1] = "fmid" /\ dir[N1v2] = "ints"
    /\ Len(result.value) = 1
    /\ result.value[1].chapter = Metadata
    /\ \E i \in DOMAIN splitlines(result.value[1].diff) :
           splitlines(result.value[1].diff)[i] = <<"-","i","d",":"," ","9">>

----------------------------------------------------------------------------
(* The entries of the changes *)

\* The chapter name of line i: the title of the nearest second-level
\* heading at or before it, "Metadata" before the first heading.
NameOfLine(lines, i) ==
    IF \E k \in Headings2(lines) : k <= i
    THEN Trimmed(lines[Max({k \in Headings2(lines) : k <= i})])
    ELSE Metadata

\* The lines that bear the chapter name, in their order.
FilteredLines(lines, name) ==
    LET mine == {i \in 1..Len(lines) : NameOfLine(lines, i) = name}
        nth(k) == CHOOSE i \in mine : Cardinality({j \in mine : j <= i}) = k
    IN  [k \in 1..Cardinality(mine) |-> lines[nth(k)]]

\* The names of the sections of the lines, in their order: "Metadata"
\* unless the first line is a heading, then the title of every heading.
SectionNames(lines) ==
    LET titles(headings) == [i \in 1..Len(headings) |-> Trimmed(headings[i])]
    IN  (IF 1 \in Headings2(lines) THEN <<>> ELSE <<Metadata>>)
        \o titles(SelectSeq(lines, IsHeading2))

\* The place where the name is first seen in the list of names.
FirstSeen(names, name) == Min({i \in 1..Len(names) : names[i] = name})

\* C26: the diff emits an entry for exactly those chapter names whose old
\* and new filtered line lists differ, each name at most once, in the order
\* of first appearance across the old revision's boundaries and then the
\* new revision's.
C26_EntriesOfDifferingNames ==
    (call.op = "diff_document_versions" /\ call.stage = "done") =>
        LET names == SectionNames(call.old) \o SectionNames(call.new)
            entries == result.value
        IN  /\ result.kind = "ok"
            /\ \A n \in {names[i] : i \in 1..Len(names)} :
                   HasEntry(entries, n) <=>
                       FilteredLines(call.old, n) # FilteredLines(call.new, n)
            /\ \A i \in 1..Len(entries) :
                   \E k \in 1..Len(names) : names[k] = entries[i].chapter
            /\ \A i, j \in 1..Len(entries) :
                   i < j => /\ entries[i].chapter # entries[j].chapter
                            /\ FirstSeen(names, entries[i].chapter)
                                   < FirstSeen(names, entries[j].chapter)

\* The old text has chapter B, the new one has chapter A before a changed
\* chapter B and a first line outside any chapter: the entries are those of
\* B (seen in the old text), then Metadata and A (seen in the new one).
C26_Witness ==
    /\ call.op = "diff_document_versions" /\ call.stage = "done"
    /\ call.old = <<<<"#","#"," ","B">>, <<"x">>>>
    /\ call.new = <<<<"y">>, <<"#","#"," ","A">>, <<"#","#"," ","B">>>>
    /\ Len(result.value) = 3
    /\ result.value[1].chapter = <<"B">>
    /\ result.value[2].chapter = Metadata
    /\ result.value[3].chapter = <<"A">>

\* C29: the diff returns an empty change list only if the two revisions
\* have identical line sequences: whenever old and new differ in at least
\* one line, or hold the same chapters in a different order, at least one
\* entry is emitted.
C29_DifferentLinesGiveAnEntry ==
    (call.op = "diff_document_versions" /\ call.stage = "done"
        /\ call.old # call.new) => result.value # <<>>

----------------------------------------------------------------------------
(* The parsers on a text *)

\* The text asked to be parsed.
ParsedText == JoinLines(call.old)

\* The delimiter stands at place i of the text.
DelimiterAt(text, i) ==
    i + 2 <= Len(text) /\ text[i] = "-" /\ text[i + 1] = "-" /\ text[i + 2] = "-"

\* The places of a second delimiter, after the one the text begins with.
SecondDelimiters(text) == {i \in 4..Len(text) : DelimiterAt(text, i)}

\* The trimmed text is the part of the text between its leading and its
\* trailing whitespace.
IsTrimmed(trimmed, text) ==
    /\ trimmed = <<>> \/ (~IsWS(trimmed[1]) /\ ~IsWS(trimmed[Len(trimmed)]))
    /\ \E a \in 1..(Len(text) + 1), b \in 0..Len(text) :
           /\ trimmed = SubSeq(text, a, b)
           /\ \A i \in 1..Len(text) : (i < a \/ i > b) => IsWS(text[i])

\* C23: parse_frontmatter fails exactly when the content begins with `---`
\* and contains no second `---`; content that does not begin with `---` is
\* never an error and yields an empty mapping and the whole trimmed text as
\* body; otherwise the text between the first two delimiters is the
\* frontmatter and the trimmed remainder is the body.
C23_FrontmatterBetweenDelimiters ==
    (call.op = "parse_document" /\ call.stage = "done") =>
        LET text == ParsedText
            fm == result.value.frontmatter
            close == Min(SecondDelimiters(text))
        IN  IF ~DelimiterAt(text, 1)
            THEN /\ fm.exc = "none" /\ fm.frontmatter = <<>>
                 /\ IsTrimmed(fm.body, text)
            ELSE IF SecondDelimiters(text) = {}
            THEN fm.exc = "ValueError"
            ELSE /\ fm.exc = "none"
                 /\ fm.frontmatter =
                        FrontmatterLines(<<>>, splitlines(Strip(SubSeq(text, 4, close - 1))))
                 /\ IsTrimmed(fm.body, SubSeq(text, close + 3, Len(text)))

\* The second delimiter stands in the middle of the line `j: a---b`: the
\* frontmatter binds j to a, and the body begins with the rest of the line.
C23_Witness ==
    /\ call.op = "parse_document" /\ call.stage = "done"
    /\ call.old = <<<<"-","-","-">>, <<"j",":"," ","a","-","-","-","b">>, <<"#"," ","T">>>>
    /\ result.value.frontmatter =
           [exc |-> "none",
            frontmatter |-> <<<<<<"j">>, StrV(<<"a">>)>>>>,
            body |-> <<"b","\n","#"," ","T">>]

\* The text begins with a delimiter and has no second one: the parsing
\* fails, and get_document_metadata answers INVALID_FORMAT.
C23_WitnessUnclosed ==
    /\ call.op = "parse_document" /\ call.stage = "done"
    /\ call.old = <<<<"-","-","-">>, <<"k",":"," ","v">>, <<"#"," ","T">>>>
    /\ result.value.frontmatter.exc = "ValueError"
    /\ result.value.metadata.code = "INVALID_FORMAT"

\* The text without its leading and trailing whitespace.
TrimOf(text) ==
    LET inner == {i \in 1..Len(text) : ~IsWS(text[i])}
    IN  IF inner = {} THEN <<>> ELSE SubSeq(text, Min(inner), Max(inner))

\* The place of the first colon of the line.
ColonOf(line) == Min({i \in 1..Len(line) : line[i] = ":"})

\* The line is not blank, does not begin with # and has a colon.
IsPairLine(line) ==
    /\ TrimOf(line) # <<>>
    /\ TrimOf(line)[1] # "#"
    /\ \E i \in 1..Len(line) : line[i] = ":"

KeyOf(line) == TrimOf(SubSeq(line, 1, ColonOf(line) - 1))

\* The value without one pair of matching surrounding quotes.
Unquoted(value) ==
    IF /\ Len(value) >= 2
       /\ value[1] = value[Len(value)]
       /\ value[1] \in {"\"", "'"}
    THEN SubSeq(value, 2, Len(value) - 1)
    ELSE value

\* The value the line binds its key to.
ValueOf(line) ==
    LET typed(value) ==
            IF value # <<>> /\ \A i \in 1..Len(value) : IsDigitChar(value[i])
            THEN IntV(int(value)) ELSE StrV(value)
    IN  typed(Unquoted(TrimOf(SubSeq(line, ColonOf(line) + 1, Len(line)))))

\* The lines between the delimiter line the text begins with and the next
\* delimiter line, when no line between them holds a delimiter.
FrontmatterOf(lines) ==
    LET closing == {k \in 2..Len(lines) : lines[k] = <<"-", "-", "-">>}
    IN  IF /\ lines # <<>> /\ lines[1] = <<"-", "-", "-">> /\ closing # {}
           /\ \A k \in 2..(Min(closing) - 1) :
                  \A i \in 1..Len(lines[k]) : ~DelimiterAt(lines[k], i)
        THEN Some(SubSeq(lines, 2, Min(closing) - 1))
        ELSE None

\* The mapping binds exactly the keys of the pair lines, each once, to the
\* value of the last line of that key.
BindsLastOccurrences(mapping, lines) ==
    LET pairs == {i \in 1..Len(lines) : IsPairLine(lines[i])}
        last(key) == Max({i \in pairs : KeyOf(lines[i]) = key})
    IN  /\ {mapping[i][1] : i \in 1..Len(mapping)} = {KeyOf(lines[i]) : i \in pairs}
        /\ \A i, j \in 1..Len(mapping) : mapping[i][1] = mapping[j][1] => i = j
        /\ \A i \in 1..Len(mapping) :
               mapping[i][2] = ValueOf(lines[last(mapping[i][1])])

\* C24: for every list of frontmatter lines, the resulting mapping has
\* exactly the trimmed keys of the lines that are non-blank, do not start
\* with # and contain a colon, each bound to the value of its last
\* occurrence, with one pair of matching surrounding quotes removed, as an
\* integer when the unquoted value consists entirely of digits and as a
\* string otherwise; blank, comment and colon-less lines never cause an
\* error.
C24_MappingOfPairLines ==
    (call.op = "parse_document" /\ call.stage = "done"
        /\ FrontmatterOf(call.old) # None) =>
        /\ result.value.frontmatter.exc = "none"
        /\ BindsLastOccurrences(result.value.frontmatter.frontmatter,
                                FrontmatterOf(call.old)[1])

\* Key k is bound twice, the second time to the quoted digit "7" with
\* spaces around the key; a comment line with a colon follows: the mapping
\* binds k to the integer 7 and nothing else.
C24_QuotedDigits ==
    /\ call.op = "parse_document" /\ call.stage = "done"
    /\ call.old = <<<<"-","-","-">>,
                   <<"k",":"," ","v">>,
                   <<" ","k"," ",":"," ","\"","7","\""," ">>,
                   <<"#"," ","c",":"," ","d">>,
                   <<"-","-","-">>,
                   <<"#"," ","T">>>>
    /\ result.value.frontmatter.frontmatter = <<<<<<"k">>, IntV(7)>>>>

\* The line is a top-level heading: # followed by whitespace, then text.
IsHeading1(line) == Len(line) >= 3 /\ line[1] = "#" /\ IsWS(line[2])

\* The top-level headings of the lines.
Headings1(lines) == {i \in 1..Len(lines) : IsHeading1(lines[i])}

\* C25: the title is the trimmed text of the first top-level heading line
\* (`# text`) found anywhere in the body; when the body has no such line,
\* parse_title fails and fetch metadata returns an INVALID_FORMAT error
\* rather than a defaulted title, while author and date default to "NA".
\* (Stated of the texts without frontmatter, whose body is the text.)
C25_TitleOfFirstHeading ==
    (call.op = "parse_document" /\ call.stage = "done"
        /\ ~DelimiterAt(ParsedText, 1)) =>
        IF Headings1(call.old) = {}
        THEN /\ result.value.title.exc = "ValueError"
             /\ result.value.metadata.kind = "error"
             /\ result.value.metadata.code = "INVALID_FORMAT"
        ELSE LET line == call.old[Min(Headings1(call.old))]
                 title == TrimOf(SubSeq(line, 3, Len(line)))
             IN  /\ result.value.title = [exc |-> "none", title |-> title]
                 /\ result.value.metadata.kind = "ok"
                 /\ DictGet(result.value.metadata.value, KeyTitle, NA) = StrV(title)
                 /\ DictGet(result.value.metadata.value, KeyAuthor, NA) = NA
                 /\ DictGet(result.value.metadata.value, KeyDate, NA) = NA

\* The title line comes after a line of text and a chapter: it is found,
\* and author and date are "NA".
C25_TitleAfterChapter ==
    /\ call.op = "parse_document" /\ call.stage = "done"
    /\ call.old = <<<<"x">>, <<"#","#"," ","A">>, <<"#"," ","T">>>>
    /\ result.value.title = [exc |-> "none", title |-> <<"T">>]
    /\ DictGet(result.value.metadata.value, KeyAuthor, NA) = NA

----------------------------------------------------------------------------
(* The chapter boundaries of a text *)

\* The line before the next second-level heading after line k, or the last
\* line.
EndOfChapter(lines, k) ==
    Min({i \in Headings2(lines) : i > k} \cup {Len(lines) + 1}) - 1

\* The k-th second-level heading of the lines.
NthHeading(lines, k) ==
    CHOOSE i \in Headings2(lines) :
        Cardinality({j \in Headings2(lines) : j <= i}) = k

\* C27: for every file content, the list of chapter boundaries starts with
\* a triple named "Metadata" covering line 1 through the line before the
\* first second-level heading (or the entire file if there is none), and
\* each subsequent triple starts at a second-level heading line and ends at
\* the line before the next such heading or at the last line.  (Of a file
\* without lines, only the name and the start of the first triple are
\* stated.)
C27_BoundariesStartWithMetadata ==
    (call.op = "parse_document" /\ call.stage = "done") =>
        LET lines == call.old
            boundaries == result.value.boundaries
        IN  /\ boundaries # <<>>
            /\ boundaries[1][1] = Metadata
            /\ boundaries[1][2] = 1
            /\ lines # <<>> => boundaries[1][3] = EndOfChapter(lines, 0)
            /\ Len(boundaries) = 1 + Cardinality(Headings2(lines))
            /\ \A k \in 2..Len(boundaries) :
                   LET start == NthHeading(lines, k - 1)
                   IN  boundaries[k] = <<Trimmed(lines[start]), start,
                                         EndOfChapter(lines, start)>>

\* A title line, chapter A with a line of text, and chapter B: "Metadata"
\* covers line 1, A lines 2 and 3, B line 4.
C27_TitleThenChapters ==
    /\ call.op = "parse_document" /\ call.stage = "done"
    /\ call.old = <<<<"#"," ","T">>, <<"#","#"," ","A">>, <<"x">>, <<"#","#"," ","B">>>>
    /\ result.value.boundaries =
           <<<<Metadata, 1, 1>>, <<<<"A">>, 2, 3>>, <<<<"B">>, 4, 4>>>>

\* C28: for every content of N >= 1 lines, the boundary triples partition
\* the line numbers 1..N: the first start is 1, each later start is the
\* previous end plus one, every start is at most its end, and the last end
\* is N; consequently the line-to-chapter map maps exactly the lines 1..N,
\* each to one name: the title of the nearest second-level heading at or
\* before the line, or "Metadata" if there is none.
C28_BoundariesPartitionLines ==
    (call.op = "parse_document" /\ call.stage = "done" /\ Len(call.old) >= 1) =>
        LET lines == call.old
            boundaries == result.value.boundaries
            line_map == result.value.line_map
        IN  /\ boundaries # <<>>
            /\ boundaries[1][2] = 1
            /\ \A k \in 2..Len(boundaries) :
                   boundaries[k][2] = boundaries[k - 1][3] + 1
            /\ \A k \in 1..Len(boundaries) : boundaries[k][2] <= boundaries[k][3]
            /\ boundaries[Len(boundaries)][3] = Len(lines)
            /\ DOMAIN line_map = 1..Len(lines)
            /\ \A n \in 1..Len(lines) : line_map[n] = NameOfLine(lines, n)

\* A line of text, chapter A with a line that is no heading, and chapter
\* B: line 1 maps to "Metadata", lines 2 and 3 to A, line 4 to B.
C28_Witness ==
    /\ call.op = "parse_document" /\ call.stage = "done"
    /\ call.old = <<<<"x">>, <<"#","#"," ","A">>, <<"#","#">>, <<"#","#"," ","B">>>>
    /\ result.value.boundaries =
           <<<<Metadata, 1, 1>>, <<<<"A">>, 2, 3>>, <<<<"B">>, 4, 4>>>>
    /\ result.value.line_map = <<Metadata, <<"A">>, <<"A">>, <<"B">>>>

----------------------------------------------------------------------------
(* The two chapter detectors *)

\* The names of the boundaries other than "Metadata", in their order.
ChapterNames(boundaries) ==
    LET named == SelectSeq(boundaries, LAMBDA b : b[1] # Metadata)
    IN  [i \in 1..Len(named) |-> named[i][1]]

\* The delimiter line that closes the frontmatter of the lines, 0 when the
\* lines do not begin with a frontmatter between two delimiter lines.
ClosingLine(lines) ==
    IF FrontmatterOf(lines) = None THEN 0 ELSE Len(FrontmatterOf(lines)[1]) + 2

\* C30: the two chapter detectors agree on every document: the titles of
\* parse_chapters over the body equal the ordered non-"Metadata" names of
\* get_chapter_boundaries over the full content, and every frontmatter
\* line and the title line map to "Metadata".
C30_DetectorsAgree ==
    (call.op = "parse_document" /\ call.stage = "done"
        /\ result.value.frontmatter.exc = "none") =>
        LET lines == call.old
            line_map == result.value.line_map
            body == SubSeq(lines, ClosingLine(lines) + 1, Len(lines))
        IN  /\ result.value.chapters = ChapterNames(result.value.boundaries)
            /\ \A n \in 1..ClosingLine(lines) : line_map[n] = Metadata
            /\ Headings1(body) # {} =>
                   line_map[ClosingLine(lines) + Min(Headings1(body))] = Metadata

\* Frontmatter and title without chapters: neither detector finds a
\* chapter, and the four lines map to "Metadata".
C30_AgreeOnPlainDocument ==
    /\ call.op = "parse_document" /\ call.stage = "done"
    /\ call.old = <<<<"-","-","-">>, <<"k",":"," ","v">>, <<"-","-","-">>, <<"#"," ","T">>>>
    /\ result.value.chapters = <<>>
    /\ ChapterNames(result.value.boundaries) = <<>>
    /\ result.value.line_map = <<Metadata, Metadata, Metadata, Metadata>>

====
